---- MODULE Spec2Model ----
(***************************************************************************)
(* Model of the comment-bot dashboard client: the campaign queue page and  *)
(* its table (src/app/queue/page.tsx, src/components/campaign-queue-       *)
(* table.tsx, src/lib/supabase-client.ts), the campaign form               *)
(* (src/unnamed/part_001) and the live progress view (src/unnamed/         *)
(* part_002).  The hosted table comment_campaigns and the external engine  *)
(* are the environment.                                                    *)
(***************************************************************************)
EXTENDS Integers, Sequences, FiniteSets, Bags, TLC

\* ------------------------------------------------------------------ bounds
\* rows the comment_campaigns table may hold
NumCampaigns == 3
\* campaigns the operator may start while the progress view is watched
NumRunnable == 1
\* requests the environment may fail in one run
MaxFaults == 1

Ids == 1..NumCampaigns

\* ------------------------------------------------------------------ state
VARIABLES
    store,          \* comment_campaigns: id -> row
    campaigns,      \* QueuePage state `campaigns`
    pageLoading,    \* QueuePage state `isLoading`
    fetching,       \* number of fetchCampaigns calls awaiting their response
    items,          \* CampaignQueueTable state `items` (<<>> while unmounted)
    platformFilter, \* CampaignQueueTable state `platformFilter`
    act,            \* the page handleAction call awaiting its response
    rq,             \* the page handleReorder call: its updates and its result
    toasts,         \* notifications emitted by the latest step
    last,           \* the latest step
    faults,         \* requests failed so far
    config,         \* ConfigureComment state `config`
    currentTargetProfile,   \* ConfigureComment state `currentTargetProfile`
    draft,          \* localStorage entry 'campaignConfig'
    isSaving,       \* ConfigureComment state `isSaving`
    ins,            \* the handleAddToQueue call awaiting its insert
    engine,         \* what GET /api/progress/current answers now
    apiProgress,    \* CampaignProgress state `apiProgress`
    displayedPhase, \* CampaignProgress state `displayedPhase`
    isLoading,      \* CampaignProgress state `isLoading`
    activeCampaign, \* CampaignProgress state `activeCampaign` (0: null)
    previousStatus, \* CampaignProgress state `previousStatus`
    isAborting,     \* CampaignProgress state `isAborting`
    armed,          \* the values the fetchActiveCampaign effect closed over
    polls,          \* the bag of fetchActiveCampaign calls awaiting their response
    ab,             \* the handleAbortCampaign call
    feed,           \* the checkpoints the engine has emitted, oldest first
    checkpoints,    \* CampaignProgress state `checkpoints`
    seenCheckpointIds,  \* CampaignProgress ref `seenCheckpointIds`
    shownErrorToasts,   \* CampaignProgress ref `shownErrorToasts`
    cpolls,         \* the bag of fetchCheckpoints calls awaiting their response
    errorToasts,    \* history: error ids the checkpoint poller notified (bag)
    suspendedToasts,    \* history: 'Account Suspended' notifications (SpecSuspension)
    accounts,       \* social_accounts: the stored (username, platform) pairs
    accountList,    \* AccountsSetupPage state `accounts`
    accountToast,   \* the error notification of the accounts page and its error
    jobs,           \* scraping_jobs: job id -> status (ids in the order of creation)
    activeJob,      \* BaseProvider state `activeJob` (0: null)
    jobLoading,     \* BaseProvider state `isLoading`
    jobError,       \* BaseProvider state `error` ("null": none)
    jcalls,         \* the bag of provider calls awaiting a response
    pcalls,         \* the fetchProgress calls awaiting their response, oldest first
    stale,          \* history: the answer stored last was older than one stored before
    rqOld           \* the handleReorder call before rq, while both are awaited

queueVars == <<campaigns, pageLoading, fetching, items, platformFilter, act, rq>>

formVars == <<config, currentTargetProfile, draft, isSaving, ins>>

progressVars == <<engine, apiProgress, displayedPhase, isLoading, activeCampaign, previousStatus,
                  isAborting, armed, polls, ab>>

feedVars == <<feed, checkpoints, seenCheckpointIds, shownErrorToasts, cpolls,
              errorToasts>>

checkVars == <<feedVars, suspendedToasts>>

\* the state of the other views: the accounts page and the job provider
otherViews == <<accounts, accountList, accountToast,
                jobs, activeJob, jobLoading, jobError, jcalls, pcalls, stale,
                rqOld>>

vars == <<store, toasts, last, faults, queueVars, formVars, progressVars,
          checkVars, otherViews>>

\* The answer to a request: success, or one of the bounded failures.
Answer(ok) ==
    /\ ~ok => faults < MaxFaults
    /\ faults' = IF ok THEN faults ELSE faults + 1

\* ------------------------------------------------------------ the table rows
\* queue_position IS NULL
NullPos == 0

\* a column that holds NULL, a number, or a text
Null == [t |-> "null", v |-> 0]

Number(n) == [t |-> "number", v |-> n]

String(x) == [t |-> "string", v |-> x]

NoRow == [present |-> FALSE, status |-> "none", platform |-> "none",
          queue_position |-> NullPos,
          created_at |-> 0, targeting_mode |-> "none", target_date |-> Null,
          number_of_posts |-> Null]

Present(st) == {id \in Ids : st[id].present}

\* A row as the page holds it: the fields the page and the table read.
Snap(st, id) ==
    [id |-> id, status |-> st[id].status, platform |-> st[id].platform]

\* an order with the rows without a position first
Before_nullsFirst(st, a, b) ==
    LET pa == st[a].queue_position
        pb == st[b].queue_position
    IN  IF pa # pb THEN pa < pb
        ELSE st[a].created_at > st[b].created_at

\* ORDER BY queue_position ASC NULLS LAST, created_at DESC
Before(st, a, b) ==
    LET pa == st[a].queue_position
        pb == st[b].queue_position
    IN  IF pa # pb
        THEN IF pa = NullPos THEN FALSE
             ELSE IF pb = NullPos THEN TRUE
             ELSE pa < pb
        ELSE st[a].created_at > st[b].created_at

RECURSIVE SortIds(_, _)
SortIds(st, S) ==
    IF S = {} THEN <<>>
    ELSE LET first == CHOOSE a \in S : \A b \in S \ {a} : Before(st, a, b)
         IN  <<first>> \o SortIds(st, S \ {first})

\* getCampaignsOrderedByQueue: the rows, ordered
getCampaignsOrderedByQueue(st) ==
    LET ids == SortIds(st, Present(st))
    IN  [i \in 1..Len(ids) |-> Snap(st, ids[i])]

\* updateCampaignStatus: UPDATE ... SET status WHERE campaign_id = id
updateCampaignStatus(st, id, status) ==
    IF st[id].present THEN [st EXCEPT ![id].status = status] ELSE st

\* a delete that moves the rows behind the deleted one up by one position
deleteCampaign_closesGap(st, id) ==
    [i \in Ids |->
        IF i = id THEN NoRow
        ELSE IF /\ st[i].present /\ st[id].present
                /\ st[id].queue_position # NullPos
                /\ st[i].queue_position > st[id].queue_position
        THEN [st[i] EXCEPT !.queue_position = @ - 1]
        ELSE st[i]]

\* deleteCampaign: DELETE ... WHERE campaign_id = id
deleteCampaign(st, id) == [st EXCEPT ![id] = NoRow]

\* one update of updateQueuePositions: SET queue_position WHERE id = id
updatePosition(st, id, pos) ==
    IF st[id].present THEN [st EXCEPT ![id].queue_position = pos] ELSE st

\* the answer to status=eq.in-progress
InProgress(st) == {id \in Present(st) : st[id].status = "in-progress"}

\* ------------------------------------------------- the progress view: state
\* fetchActiveCampaign calls that may be awaiting their response at a time
MaxPolls == 2

\* A latest_sentence is a sequence of words, or of characters where the
\* letters matter.
toLowerCase(sentence) ==
    [i \in 1..Len(sentence) |->
        CASE sentence[i] = "Account" -> "account"
          [] sentence[i] = "Suspended" -> "suspended"
          [] sentence[i] = "Login" -> "login"
          [] sentence[i] = "A" -> "a"
          [] sentence[i] = "B" -> "b"
          [] sentence[i] = "C" -> "c"
          [] sentence[i] = "D" -> "d"
          [] sentence[i] = "E" -> "e"
          [] sentence[i] = "F" -> "f"
          [] sentence[i] = "G" -> "g"
          [] sentence[i] = "H" -> "h"
          [] sentence[i] = "I" -> "i"
          [] sentence[i] = "J" -> "j"
          [] sentence[i] = "K" -> "k"
          [] sentence[i] = "L" -> "l"
          [] sentence[i] = "M" -> "m"
          [] sentence[i] = "N" -> "n"
          [] sentence[i] = "O" -> "o"
          [] sentence[i] = "P" -> "p"
          [] sentence[i] = "Q" -> "q"
          [] sentence[i] = "R" -> "r"
          [] sentence[i] = "S" -> "s"
          [] sentence[i] = "T" -> "t"
          [] sentence[i] = "U" -> "u"
          [] sentence[i] = "V" -> "v"
          [] sentence[i] = "W" -> "w"
          [] sentence[i] = "X" -> "x"
          [] sentence[i] = "Y" -> "y"
          [] sentence[i] = "Z" -> "z"
          [] OTHER -> sentence[i]]

includes(sentence, word) == \E i \in 1..Len(sentence) : sentence[i] = word

\* String.prototype.includes on texts that are sequences of characters
includesText(s, w) ==
    \E i \in 0..(Len(s) - Len(w)) : SubSeq(s, i + 1, i + Len(w)) = w

\* the keywords of the phase classification
Keywords ==
    [ navigating |-> <<"n", "a", "v", "i", "g", "a", "t", "i", "n", "g">>,
      comment |-> <<"c", "o", "m", "m", "e", "n", "t">>,
      authenticating |-> <<"a", "u", "t", "h", "e", "n", "t", "i", "c", "a", "t", "i", "n", "g">>,
      login |-> <<"l", "o", "g", "i", "n">>,
      connecting |-> <<"c", "o", "n", "n", "e", "c", "t", "i", "n", "g">>,
      waiting |-> <<"w", "a", "i", "t", "i", "n", "g">>,
      cooldown |-> <<"c", "o", "o", "l", "d", "o", "w", "n">> ]

phase_commentFirst(data) ==
    IF data.status = "running"
    THEN LET sentence == toLowerCase(data.latest_sentence)
         IN  IF includesText(sentence, Keywords.comment) THEN "commenting"
             ELSE IF includesText(sentence, Keywords.navigating) THEN "navigating"
             ELSE IF \/ includesText(sentence, Keywords.authenticating)
                     \/ includesText(sentence, Keywords.login)
                  THEN "authenticating"
             ELSE IF includesText(sentence, Keywords.connecting) THEN "connecting"
             ELSE IF \/ includesText(sentence, Keywords.waiting)
                     \/ includesText(sentence, Keywords.cooldown)
                  THEN "waiting"
             ELSE "commenting"
    ELSE IF data.status = "completed" THEN "completed"
    ELSE "idle"

\* the phase fetchProgress derives from an answer
phase(data) ==
    IF data.status = "running"
    THEN LET sentence == toLowerCase(data.latest_sentence)
         IN  IF includesText(sentence, Keywords.navigating) THEN "navigating"
             ELSE IF includesText(sentence, Keywords.comment) THEN "commenting"
             ELSE IF \/ includesText(sentence, Keywords.authenticating)
                     \/ includesText(sentence, Keywords.login)
                  THEN "authenticating"
             ELSE IF includesText(sentence, Keywords.connecting) THEN "connecting"
             ELSE IF \/ includesText(sentence, Keywords.waiting)
                     \/ includesText(sentence, Keywords.cooldown)
                  THEN "waiting"
             ELSE "commenting"
    ELSE IF data.status = "completed" THEN "completed"
    ELSE "idle"

\* the answers of GET /api/progress/current
Idle == [status |-> "idle", latest_sentence |-> <<>>]

EngineStates ==
    { Idle,
      [status |-> "running", latest_sentence |-> <<"Commenting">>],
      [status |-> "completed", latest_sentence |-> <<"finished">>],
      [status |-> "error", latest_sentence |-> <<"Login", "failed">>],
      [status |-> "error", latest_sentence |-> <<"Account", "Suspended">>] }

\* apiProgress === null: apiProgress?.status is undefined
NoProgress == [status |-> "undefined", latest_sentence |-> <<>>]

NoAbort == [pc |-> "idle", id |-> 0, calls |-> <<>>, notify |-> "none",
            patch |-> "none"]

\* a call of fetchActiveCampaign: it keeps the values its effect closed over
fetchActiveCampaignCall(pl, pstat, api) ==
    pl (+) SetToBag({[previousStatus |-> pstat, apiProgress |-> api]})

\* The view right after its mount: the effects have run once, the first
\* fetchActiveCampaign is awaiting its response.
ProgressMounted ==
    /\ engine = Idle
    /\ apiProgress = NoProgress
    /\ displayedPhase = "idle"
    /\ isLoading = TRUE
    /\ activeCampaign = 0
    /\ previousStatus = "null"
    /\ isAborting = FALSE
    /\ armed = [previousStatus |-> "null", apiProgress |-> NoProgress]
    /\ polls = fetchActiveCampaignCall(EmptyBag, "null", NoProgress)
    /\ ab = NoAbort

\* ---------------------------------------------- the checkpoint feed: state
\* checkpoints the engine may emit in one run
MaxFeed == 2

\* ?limit=10 of the checkpoints request
Limit == 10

\* slice(-10): the rolling window of the view
WindowSize == 10

\* slice(0, 3): the checkpoints searched for a recent failure
Recent == 3

Checkpoint(kind, timestamp) ==
    [type |-> kind.type, status |-> kind.status, message |-> kind.message,
     timestamp |-> timestamp]

\* `${type}-${status}-${timestamp}`
checkpointId(c) == <<c.type, c.status, c.timestamp>>

\* `${timestamp}-${message}`
errorId(c) == <<c.timestamp, c.message>>

\* The answer to a request served when the feed held n checkpoints: the
\* latest Limit of them, the newest first.
CheckpointsResponse(fd, n) ==
    LET k == IF n < Limit THEN n ELSE Limit
    IN  [i \in 1..k |-> fd[n - i + 1]]

\* a filter that lets every checkpoint pass, seen or not
FilterNew_acceptsSeen(resp, i, seen, new) ==
    [seen |-> seen \cup {checkpointId(resp[j]) : j \in 1..Len(resp)},
     new |-> resp]

\* data.checkpoints.filter(...): the checkpoints not seen, in their order;
\* each one is marked seen when it passes.
RECURSIVE FilterNew(_, _, _, _)
FilterNew(resp, i, seen, new) ==
    IF i > Len(resp) THEN [seen |-> seen, new |-> new]
    ELSE IF checkpointId(resp[i]) \in seen
    THEN FilterNew(resp, i + 1, seen, new)
    ELSE FilterNew(resp, i + 1, seen \cup {checkpointId(resp[i])},
                   Append(new, resp[i]))

\* a merge that keeps the oldest entries: slice(0, 10)
Merge_keepsOldest(prev, new) ==
    LET all == prev \o new
    IN  IF Len(all) <= WindowSize THEN all ELSE SubSeq(all, 1, WindowSize)

\* [...prev, ...newCheckpoints].slice(-10)
Merge(prev, new) ==
    LET all == prev \o new
    IN  IF Len(all) <= WindowSize THEN all
        ELSE SubSeq(all, Len(all) - WindowSize + 1, Len(all))

\* data.checkpoints.slice(0, 3).filter(c => c.status === 'failure')
recentFailures(resp) ==
    SelectSeq(SubSeq(resp, 1, IF Len(resp) < Recent THEN Len(resp) ELSE Recent),
              LAMBDA c : c.status = "failure")

\* a call of fetchCheckpoints: the status its effect closed over and the
\* length of the feed when the engine served it (-1: not yet served)
fetchCheckpointsCall(cp, status) ==
    cp (+) SetToBag({[status |-> status, n |-> 0 - 1]})

\* The checkpoint part of the view right after its mount.
CheckpointsMounted ==
    /\ feed = <<>>
    /\ checkpoints = <<>>
    /\ seenCheckpointIds = {}
    /\ shownErrorToasts = {}
    /\ cpolls = fetchCheckpointsCall(EmptyBag, "undefined")
    /\ errorToasts = EmptyBag
    /\ suspendedToasts = 0

\* ------------------------------------------------------ the other views
\* no handleReorder call
\* from/active/over: currentItems and the drag event of handleDragEnd
NoReorder == [pc |-> "idle", from |-> <<>>, active |-> 0, over |-> 0,
              order |-> <<>>, pending |-> {}, failed |-> {}, error |-> 0]

\* rows the table scraping_jobs may hold
NumJobs == 2

NoAccountToast == [error |-> [code |-> "", message |-> <<>>],
                   shown |-> [kind |-> "none", text |-> <<>>]]

\* The accounts page is not shown; the table of accounts is empty.
OthersUnmounted ==
    /\ accounts = {}
    /\ accountList = {}
    /\ accountToast = NoAccountToast
    /\ jobs = [j \in 1..NumJobs |-> "absent"]
    /\ activeJob = 0
    /\ jobLoading = TRUE
    /\ jobError = "null"
    /\ jcalls = EmptyBag
    /\ pcalls = <<>>
    /\ stale = FALSE
    /\ rqOld = NoReorder

\* ------------------------------------------------------------ the queue page
NoAct == [pc |-> "idle", action |-> "none", id |-> 0]

IndexOf(seq, id) == CHOOSE i \in 1..Len(seq) : seq[i].id = id

ItemIds(seq) == {seq[i].id : i \in 1..Len(seq)}

\* arrayMove(array, from, to): take the element out, put it back at `to`
arrayMove(seq, from, to) ==
    LET without == [i \in 1..(Len(seq) - 1) |->
                        IF i < from THEN seq[i] ELSE seq[i + 1]]
    IN  [i \in 1..Len(seq) |->
            IF i < to THEN without[i]
            ELSE IF i = to THEN seq[from]
            ELSE without[i - 1]]

\* (mutant) the 0-based index itself is stored
positionUpdates_zeroBased(order) ==
    [i \in 1..Len(order) |-> [id |-> order[i].id, queue_position |-> i - 1]]

\* positionUpdates of handleReorder: index + 1 for each campaign, 0-based index
positionUpdates(order) ==
    [i \in 1..Len(order) |-> [id |-> order[i].id, queue_position |-> (i - 1) + 1]]

\* errors[0] of updateQueuePositions: the first failed update in call order
firstError(failed) ==
    IF failed = {} THEN 0
    ELSE CHOOSE i \in failed : \A j \in failed : i <= j

\* statusOrder of filteredItems
statusOrder(status) ==
    CASE status = "in-progress" -> 0
      [] status = "not-started" -> 1
      [] status = "completed" -> 2

\* filteredItems: the items of the selected platform, sorted by statusOrder
\* (Array.prototype.sort is stable)
filteredItems(seq, filter) ==
    LET filtered == IF filter # "all"
                    THEN SelectSeq(seq, LAMBDA item : item.platform = filter)
                    ELSE seq
        before(i, j) ==
            \/ statusOrder(filtered[i].status) < statusOrder(filtered[j].status)
            \/ /\ statusOrder(filtered[i].status) = statusOrder(filtered[j].status)
               /\ i < j
    IN  [k \in 1..Len(filtered) |->
            filtered[CHOOSE i \in 1..Len(filtered) :
                        Cardinality({j \in 1..Len(filtered) : before(j, i)}) = k - 1]]

\* the platform select of the table
setPlatformFilter(filter) ==
    /\ ~pageLoading
    /\ filter # platformFilter
    /\ platformFilter' = filter
    /\ toasts' = <<>>
    /\ last' = "setPlatformFilter"
    /\ rq' = IF rq.pc = "updating" THEN rq ELSE NoReorder
    /\ UNCHANGED <<store, campaigns, pageLoading, fetching, items, act, faults>>

\* fetchCampaigns up to its await: the spinner replaces the table
fetchCampaignsCall ==
    /\ pageLoading' = TRUE
    /\ items' = <<>>
    /\ platformFilter' = "all"
    /\ fetching' = fetching + 1

\* fetchCampaigns after its await
FetchCampaignsDone(ok) ==
    /\ fetching > 0
    /\ Answer(ok)
    /\ fetching' = fetching - 1
    /\ campaigns' = IF ok THEN getCampaignsOrderedByQueue(store) ELSE campaigns
    /\ pageLoading' = FALSE
    \* the table mounts with the campaigns prop as its initial items
    /\ items' = IF pageLoading THEN campaigns' ELSE items
    /\ toasts' = IF ok THEN <<>> ELSE <<"Failed to load campaigns">>
    /\ last' = IF ok THEN "FetchOk" ELSE "FetchFailed"
    /\ UNCHANGED <<store, platformFilter, act, rq>>

\* The action menu of a row: Start Now for not-started, Pause for in-progress,
\* Remove for every row.
Offered(action, item) ==
    \/ action = "start" /\ item.status = "not-started"
    \/ action = "pause" /\ item.status = "in-progress"
    \/ action = "delete"

\* the table's own handling of an action, applied at once
tableHandleAction(seq, action, id) ==
    IF action = "delete"
    THEN SelectSeq(seq, LAMBDA it : it.id # id)
    ELSE [i \in 1..Len(seq) |->
            IF seq[i].id = id
            THEN [seq[i] EXCEPT !.status =
                    IF action = "start" THEN "in-progress" ELSE "not-started"]
            ELSE seq[i]]

\* The table's handleAction: the page's handler is called (and awaits the
\* store), then the table changes its own items.
TableAction(action, id) ==
    /\ ~pageLoading
    /\ act.pc = "idle"
    /\ id \in ItemIds(items)
    /\ Offered(action, items[IndexOf(items, id)])
    /\ act' = [pc |-> "await", action |-> action, id |-> id]
    /\ items' = tableHandleAction(items, action, id)
    /\ toasts' = <<>>
    /\ last' = "TableAction"
    \* a reorder that has returned leaves nothing behind
    /\ rq' = IF rq.pc = "updating" THEN rq ELSE NoReorder
    /\ UNCHANGED <<store, campaigns, pageLoading, fetching, platformFilter, faults>>

ActionToast(action, ok) ==
    IF action = "start"
    THEN IF ok THEN "Campaign started" ELSE "Failed to start campaign"
    ELSE IF action = "pause"
    THEN IF ok THEN "Campaign paused" ELSE "Failed to pause campaign"
    ELSE IF ok THEN "Campaign deleted" ELSE "Failed to delete campaign"

\* what the awaited call of the page's handleAction does to the table
ActionWrite(st, action, id) ==
    IF action = "start" THEN updateCampaignStatus(st, id, "in-progress")
    ELSE IF action = "pause" THEN updateCampaignStatus(st, id, "not-started")
    ELSE deleteCampaign(st, id)

\* The page's handleAction after its await
PageActionDone(ok) ==
    /\ act.pc = "await"
    /\ Answer(ok)
    /\ store' = IF ok THEN ActionWrite(store, act.action, act.id) ELSE store
    /\ toasts' = <<ActionToast(act.action, ok)>>
    /\ act' = NoAct
    /\ IF ok THEN fetchCampaignsCall
             ELSE UNCHANGED <<pageLoading, items, fetching, platformFilter>>
    /\ last' = IF ok THEN "ActionOk" ELSE "ActionFailed"
    /\ UNCHANGED <<campaigns, rq>>

\* handleDragEnd and handleReorder up to the await: the new order is shown at
\* once and one update per campaign is sent.
DragEnd(activeId, overId) ==
    /\ ~pageLoading
    /\ rq.pc # "updating"
    /\ activeId \in ItemIds(filteredItems(items, platformFilter))
    /\ overId \in ItemIds(filteredItems(items, platformFilter))
    /\ activeId # overId
    /\ LET newOrder == arrayMove(items, IndexOf(items, activeId),
                                 IndexOf(items, overId))
       IN  /\ items' = newOrder
           /\ campaigns' = newOrder
           /\ rq' = [pc |-> "updating", from |-> items, active |-> activeId,
                     over |-> overId, order |-> positionUpdates(newOrder),
                     pending |-> 1..Len(newOrder), failed |-> {}, error |-> 0]
    /\ toasts' = <<>>
    /\ last' = "DragEnd"
    /\ UNCHANGED <<store, pageLoading, fetching, platformFilter, act, faults>>

\* (mutant) the failure is reported and nothing is fetched again
handleReorderDone_noRefetch(failed) ==
    IF failed # {}
    THEN /\ toasts' = <<"Failed to save queue order">>
         /\ UNCHANGED <<pageLoading, items, fetching, platformFilter>>
         /\ last' = "ReorderFailed"
    ELSE /\ toasts' = <<"Queue order updated">>
         /\ UNCHANGED <<pageLoading, items, fetching, platformFilter>>
         /\ last' = "ReorderSaved"

\* handleReorder after the await of updateQueuePositions
handleReorderDone(failed) ==
    IF failed # {}
    THEN /\ toasts' = <<"Failed to save queue order">>
         /\ fetchCampaignsCall
         /\ last' = "ReorderFailed"
    ELSE /\ toasts' = <<"Queue order updated">>
         /\ UNCHANGED <<pageLoading, items, fetching, platformFilter>>
         /\ last' = "ReorderSaved"

\* One update of updateQueuePositions is answered; with the last answer
\* Promise.all resolves and handleReorder goes on.
UpdateAnswered(i, ok) ==
    /\ rq.pc = "updating"
    /\ i \in rq.pending
    /\ Answer(ok)
    /\ store' = IF ok THEN updatePosition(store, rq.order[i].id,
                                          rq.order[i].queue_position)
                      ELSE store
    /\ LET pending == rq.pending \ {i}
           failed == IF ok THEN rq.failed ELSE rq.failed \cup {i}
       IN  IF pending # {}
           THEN /\ rq' = [rq EXCEPT !.pending = pending, !.failed = failed]
                /\ toasts' = <<>>
                /\ last' = "UpdateAnswered"
                /\ UNCHANGED <<pageLoading, items, fetching, platformFilter>>
           ELSE /\ rq' = [rq EXCEPT !.pending = {}, !.failed = failed,
                                    !.error = firstError(failed),
                                    !.pc = IF failed = {} THEN "saved"
                                                          ELSE "failed"]
                /\ handleReorderDone(failed)
    /\ UNCHANGED <<campaigns, act>>

\* The operator acts when nothing of an earlier action is still awaited.
QueueQuiet == fetching = 0 /\ act.pc = "idle" /\ rq.pc # "updating"

\* ---------------------------------------------------------- the campaign form
\* `config.targetProfiles.length >= 5`
MaxTargets == 5

\* numberOfPosts of the initial and of the reset form
DefaultPosts == 5

\* target profile names the operator may type
NumProfileNames == 6

ProfileNames == 1..NumProfileNames

\* A text of the target input: a name (0: none), perhaps with blanks around it.
Text(name, padded) == [name |-> name, padded |-> padded]

EmptyText == Text(0, FALSE)

\* String.prototype.trim on such a text
trim(text) == Text(text.name, FALSE)

\* Comment texts: sequences of characters.
Comments == {<<>>, <<" ">>, <<"N">>, <<" ", "N">>}

RECURSIVE trimStart(_)
trimStart(s) ==
    IF s # <<>> /\ Head(s) = " " THEN trimStart(Tail(s)) ELSE s

RECURSIVE trimEnd(_)
trimEnd(s) ==
    IF s # <<>> /\ s[Len(s)] = " " THEN trimEnd(SubSeq(s, 1, Len(s) - 1)) ELSE s

trimChars(s) == trimEnd(trimStart(s))

\* targetDate: undefined, a Date, or (in the stored draft) its ISO text
Undefined == [t |-> "undefined", v |-> 0]

Date(d) == [t |-> "Date", v |-> d]

\* the form as useState creates it and as Clear and a saved campaign reset it
resetConfig ==
    [customComment |-> <<>>, platform |-> "", userAccounts |-> <<>>,
     targetProfiles |-> <<>>, targetingMode |-> "posts",
     targetDate |-> Undefined, numberOfPosts |-> DefaultPosts]

\* JSON.stringify(config): a Date becomes its ISO text, undefined is left out
stringify(cfg) ==
    [cfg EXCEPT !.targetDate =
        IF cfg.targetDate.t = "Date" THEN String(cfg.targetDate.v) ELSE Undefined]

\* a parse that leaves targetDate as the text the draft holds
parseDraft_keepsText(text) == text

\* JSON.parse and the conversion of targetDate back to a Date
parseDraft(text) ==
    [text EXCEPT !.targetDate =
        IF text.targetDate.t = "string" THEN Date(text.targetDate.v)
        ELSE text.targetDate]

NoDraft == [present |-> FALSE, value |-> stringify(resetConfig)]

\* the save effect: localStorage.setItem('campaignConfig', JSON.stringify(config))
saveEffect(cfg) == [present |-> TRUE, value |-> stringify(cfg)]

NoInsert == [pc |-> "idle", config |-> resetConfig, data |-> NoRow,
             target_profiles |-> <<>>]

Includes(seq, x) == \E i \in 1..Len(seq) : seq[i] = x

\* setConfig followed by the save effect of the next render.  (An insert that
\* has returned leaves nothing behind: ins is kept only up to the next step.)
SetConfig(cfg, step) ==
    /\ config' = cfg
    /\ draft' = saveEffect(cfg)
    /\ toasts' = <<>>
    /\ last' = step
    /\ ins' = NoInsert
    /\ UNCHANGED <<store, faults, isSaving>>

\* the comment textarea
ChangeComment(c) ==
    SetConfig([config EXCEPT !.customComment = c], "ChangeComment")
    /\ UNCHANGED currentTargetProfile

\* the platform select
SelectPlatform(p) ==
    SetConfig([config EXCEPT !.platform = p], "SelectPlatform")
    /\ UNCHANGED currentTargetProfile

\* addUserAccount(username) from the account picker
addUserAccount(a) ==
    /\ ~Includes(config.userAccounts, a)
    /\ SetConfig([config EXCEPT !.userAccounts = Append(@, a)], "addUserAccount")
    /\ UNCHANGED currentTargetProfile

removeUserAccount(a) ==
    /\ Includes(config.userAccounts, a)
    /\ SetConfig([config EXCEPT !.userAccounts =
                    SelectSeq(@, LAMBDA x : x # a)], "removeUserAccount")
    /\ UNCHANGED currentTargetProfile

\* the radio group of the targeting mode
SelectTargetingMode(m) ==
    SetConfig([config EXCEPT !.targetingMode = m], "SelectTargetingMode")
    /\ UNCHANGED currentTargetProfile

\* the number input: parseInt(value) || 0
ChangeNumberOfPosts(n) ==
    /\ config.targetingMode = "posts"
    /\ SetConfig([config EXCEPT !.numberOfPosts = n], "ChangeNumberOfPosts")
    /\ UNCHANGED currentTargetProfile

\* the calendar: a date, or undefined when the selected day is clicked again
SelectDate(d) ==
    /\ config.targetingMode = "date"
    /\ SetConfig([config EXCEPT !.targetDate = d], "SelectDate")
    /\ UNCHANGED currentTargetProfile

\* the target input's onChange
ChangeTargetProfile(text) ==
    /\ currentTargetProfile' = text
    /\ toasts' = <<>>
    /\ last' = "ChangeTargetProfile"
    /\ ins' = NoInsert
    /\ UNCHANGED <<store, faults, config, draft, isSaving>>

\* the notification of a successful addTargetProfile
TargetAdded(remaining) ==
    IF remaining > 0 THEN <<"Target added (slots remaining)">>
    ELSE <<"Target added (maximum reached)">>

\* (mutant) a sixth profile passes the length check
addTargetProfile_offByOne ==
    IF Len(config.targetProfiles) > MaxTargets
    THEN /\ toasts' = <<"Maximum of 5 target profiles allowed">>
         /\ last' = "TargetLimit"
         /\ ins' = NoInsert
         /\ UNCHANGED <<store, faults, config, currentTargetProfile, draft, isSaving>>
    ELSE LET t == trim(currentTargetProfile)
         IN  IF t.name # 0 /\ ~Includes(config.targetProfiles, t.name)
             THEN /\ config' = [config EXCEPT !.targetProfiles = Append(@, t.name)]
                  /\ draft' = saveEffect(config')
                  /\ currentTargetProfile' = EmptyText
                  /\ toasts' = TargetAdded(MaxTargets - Len(config.targetProfiles) - 1)
                  /\ last' = "TargetAdded"
                  /\ ins' = NoInsert
                  /\ UNCHANGED <<store, faults, isSaving>>
             ELSE /\ toasts' = <<>>
                  /\ last' = "TargetIgnored"
                  /\ ins' = NoInsert
                  /\ UNCHANGED <<store, faults, config, currentTargetProfile,
                                 draft, isSaving>>

addTargetProfile ==
    IF Len(config.targetProfiles) >= MaxTargets
    THEN /\ toasts' = <<"Maximum of 5 target profiles allowed">>
         /\ last' = "TargetLimit"
         /\ ins' = NoInsert
         /\ UNCHANGED <<store, faults, config, currentTargetProfile, draft, isSaving>>
    ELSE LET t == trim(currentTargetProfile)
         IN  IF t.name # 0 /\ ~Includes(config.targetProfiles, t.name)
             THEN /\ config' = [config EXCEPT !.targetProfiles = Append(@, t.name)]
                  /\ draft' = saveEffect(config')
                  /\ currentTargetProfile' = EmptyText
                  /\ toasts' = TargetAdded(MaxTargets - Len(config.targetProfiles) - 1)
                  /\ last' = "TargetAdded"
                  /\ ins' = NoInsert
                  /\ UNCHANGED <<store, faults, isSaving>>
             ELSE /\ toasts' = <<>>
                  /\ last' = "TargetIgnored"
                  /\ ins' = NoInsert
                  /\ UNCHANGED <<store, faults, config, currentTargetProfile,
                                 draft, isSaving>>

removeTargetProfile(p) ==
    /\ Includes(config.targetProfiles, p)
    /\ SetConfig([config EXCEPT !.targetProfiles =
                    SelectSeq(@, LAMBDA x : x # p)], "removeTargetProfile")
    /\ UNCHANGED currentTargetProfile

\* The checks of handleAddToQueue, in its order; "ok" when all pass.
validate(cfg) ==
    IF trimChars(cfg.customComment) = <<>>
    THEN "Please enter a custom comment"
    ELSE IF cfg.platform = ""
    THEN "Please select a platform"
    ELSE IF Len(cfg.userAccounts) = 0
    THEN "Please add at least one user account"
    ELSE IF Len(cfg.targetProfiles) = 0
    THEN "Please add at least one target profile"
    ELSE IF cfg.targetingMode = "date" /\ cfg.targetDate.t = "undefined"
    THEN "Please select a target date"
    ELSE IF cfg.targetingMode = "posts" /\ (cfg.numberOfPosts = 0 \/ cfg.numberOfPosts < 1)
    THEN "Please enter a valid number of posts"
    ELSE "ok"

\* (mutant) the platform is checked before the comment
validate_platformFirst(cfg) ==
    IF cfg.platform = ""
    THEN "Please select a platform"
    ELSE IF trimChars(cfg.customComment) = <<>>
    THEN "Please enter a custom comment"
    ELSE validate(cfg)

\* Date.prototype.toISOString; undefined?.toISOString() is undefined, which
\* JSON leaves out: the column is NULL.
toISOString(d) == IF d.t = "Date" THEN String(d.v) ELSE Null

\* (mutant) both targeting values are written whatever the mode
campaignData_bothValues(cfg) ==
    [present |-> TRUE, status |-> "not-started", platform |-> cfg.platform,
     queue_position |-> NullPos,
     created_at |-> 0, targeting_mode |-> cfg.targetingMode,
     target_date |-> toISOString(cfg.targetDate),
     number_of_posts |-> Number(cfg.numberOfPosts)]

\* campaignData of handleAddToQueue: the columns the pages read.  No
\* queue_position is given; created_at is set by the table.
campaignData(cfg) ==
    [present |-> TRUE, status |-> "not-started", platform |-> cfg.platform,
     queue_position |-> NullPos,
     created_at |-> 0, targeting_mode |-> cfg.targetingMode,
     target_date |-> IF cfg.targetingMode = "date"
                     THEN toISOString(cfg.targetDate) ELSE Null,
     number_of_posts |-> IF cfg.targetingMode = "posts"
                         THEN Number(cfg.numberOfPosts) ELSE Null]

\* The form validator is the one handleAddToQueue runs first.
Validator(cfg) == validate(cfg)

\* handleAddToQueue up to the await of the insert
SubmitStart ==
    /\ ~isSaving
    /\ IF Validator(config) # "ok"
       THEN /\ toasts' = <<Validator(config)>>
            /\ last' = "SubmitRejected"
            /\ UNCHANGED <<store, faults, formVars>>
       ELSE /\ Present(store) # Ids
            /\ isSaving' = TRUE
            /\ ins' = [pc |-> "await", config |-> config,
                       data |-> campaignData(config),
                       target_profiles |-> config.targetProfiles]
            /\ toasts' = <<>>
            /\ last' = "SubmitStart"
            /\ UNCHANGED <<store, faults, config, currentTargetProfile, draft>>

\* INSERT INTO comment_campaigns: a new id, created_at = now()
insertRow(st, row) ==
    LET id == CHOOSE i \in Ids \ Present(st) : \A j \in Ids \ Present(st) : i <= j
        stamps == {st[r].created_at : r \in Present(st)}
        now == IF stamps = {} THEN 1
               ELSE 1 + CHOOSE m \in stamps : \A c \in stamps : c <= m
    IN  [st EXCEPT ![id] = [row EXCEPT !.created_at = now]]

\* handleAddToQueue after the await: on success the form is reset and the
\* draft removed; the save effect of the next render then stores the reset
\* form.
InsertAnswered(ok) ==
    /\ ins.pc = "await"
    /\ Answer(ok)
    /\ isSaving' = FALSE
    /\ UNCHANGED currentTargetProfile
    /\ IF ok
       THEN /\ store' = insertRow(store, ins.data)
            /\ toasts' = <<"Comment Campaign saved successfully!">>
            /\ config' = resetConfig
            /\ draft' = saveEffect(resetConfig)
            /\ ins' = [ins EXCEPT !.pc = "saved"]
            /\ last' = "InsertOk"
       ELSE /\ toasts' = <<"Failed to save campaign">>
            /\ ins' = [ins EXCEPT !.pc = "failed"]
            /\ last' = "InsertFailed"
            /\ UNCHANGED <<store, config, draft>>

\* the Clear button
ClearForm ==
    /\ config' = resetConfig
    /\ draft' = saveEffect(resetConfig)
    /\ toasts' = <<"Form cleared">>
    /\ last' = "ClearForm"
    /\ ins' = NoInsert
    /\ UNCHANGED <<store, faults, currentTargetProfile, isSaving>>

\* The form is mounted again: the load effect restores the stored draft, the
\* save effect stores the form of each render.
FormMount ==
    /\ config' = IF draft.present THEN parseDraft(draft.value) ELSE resetConfig
    /\ draft' = saveEffect(config')
    /\ currentTargetProfile' = EmptyText
    /\ isSaving' = FALSE
    /\ ins' = NoInsert
    /\ toasts' = <<>>
    /\ last' = "FormMount"
    /\ UNCHANGED <<store, faults>>

\* The form mounted in a browser that holds no draft.
FormMounted ==
    /\ config = resetConfig
    /\ currentTargetProfile = EmptyText
    /\ draft = saveEffect(resetConfig)
    /\ isSaving = FALSE
    /\ ins = NoInsert

\* The queue page is not shown.
QueueUnmounted ==
    /\ campaigns = <<>>
    /\ pageLoading = TRUE
    /\ fetching = 0
    /\ items = <<>>
    /\ platformFilter = "all"
    /\ act = NoAct
    /\ rq = NoReorder

\* values the operator enters
PostCounts == {0 - 1, 0, DefaultPosts}

Dates == {Undefined, Date(1)}

Texts == {Text(n, FALSE) : n \in 0..NumProfileNames} \cup {Text(0, TRUE), Text(1, TRUE)}

\* The operator edits the form when no insert is awaited.
FormQuiet == ins.pc # "await"

InitForm ==
    /\ store = [id \in Ids |-> NoRow]
    /\ toasts = <<>>
    /\ last = "mount"
    /\ faults = 0
    /\ FormMounted
    /\ QueueUnmounted
    /\ ProgressMounted
    /\ CheckpointsMounted
    /\ OthersUnmounted

FormStep ==
    \/ \E c \in Comments : FormQuiet /\ ChangeComment(c)
    \/ FormQuiet /\ SelectPlatform("instagram")
    \/ FormQuiet /\ addUserAccount(1)
    \/ FormQuiet /\ removeUserAccount(1)
    \/ \E m \in {"posts", "date"} : FormQuiet /\ SelectTargetingMode(m)
    \/ \E n \in PostCounts : FormQuiet /\ ChangeNumberOfPosts(n)
    \/ \E d \in Dates : FormQuiet /\ SelectDate(d)
    \/ \E t \in {EmptyText, Text(1, TRUE)} : FormQuiet /\ ChangeTargetProfile(t)
    \/ FormQuiet /\ addTargetProfile
    \/ FormQuiet /\ removeTargetProfile(1)
    \/ FormQuiet /\ SubmitStart
    \/ \E ok \in BOOLEAN : InsertAnswered(ok)
    \/ FormQuiet /\ ClearForm
    \/ FormQuiet /\ FormMount

NextForm == FormStep /\ UNCHANGED <<queueVars, progressVars, checkVars, otherViews>>

SpecForm == InitForm /\ [][NextForm]_vars

\* A form that is complete but for its target profiles.
InitTargets ==
    /\ store = [id \in Ids |-> NoRow]
    /\ toasts = <<>>
    /\ last = "mount"
    /\ faults = 0
    /\ config = [resetConfig EXCEPT !.customComment = <<"N">>,
                                    !.platform = "instagram",
                                    !.userAccounts = <<1>>]
    /\ currentTargetProfile = EmptyText
    /\ draft = saveEffect(config)
    /\ isSaving = FALSE
    /\ ins = NoInsert
    /\ QueueUnmounted
    /\ ProgressMounted
    /\ CheckpointsMounted
    /\ OthersUnmounted

TargetsStep ==
    \/ \E t \in Texts : FormQuiet /\ ChangeTargetProfile(t)
    \/ FormQuiet /\ addTargetProfile
    \/ \E p \in ProfileNames : FormQuiet /\ removeTargetProfile(p)
    \/ FormQuiet /\ SubmitStart
    \/ \E ok \in BOOLEAN : InsertAnswered(ok)
    \/ FormQuiet /\ FormMount

NextTargets == TargetsStep /\ UNCHANGED <<queueVars, progressVars, checkVars, otherViews>>

SpecTargets == InitTargets /\ [][NextTargets]_vars

\* The table after the form wrote NumCampaigns campaigns: not-started, no
\* queue position.  The page has just been mounted and is fetching.
InitQueue ==
    /\ store = [id \in Ids |-> [present |-> TRUE, status |-> "not-started",
                                platform |-> IF id % 2 = 1 THEN "instagram"
                                                           ELSE "x",
                                queue_position |-> NullPos, created_at |-> id,
                                targeting_mode |-> "posts", target_date |-> Null,
                                number_of_posts |-> Number(DefaultPosts)]]
    /\ campaigns = <<>>
    /\ pageLoading = TRUE
    /\ fetching = 1
    /\ items = <<>>
    /\ platformFilter = "all"
    /\ act = NoAct
    /\ rq = NoReorder
    /\ toasts = <<>>
    /\ last = "mount"
    /\ faults = 0
    /\ FormMounted
    /\ ProgressMounted
    /\ CheckpointsMounted
    /\ OthersUnmounted

QueueStep ==
    \/ \E ok \in BOOLEAN : FetchCampaignsDone(ok)
    \/ \E ok \in BOOLEAN : PageActionDone(ok)
    \/ \E i \in Ids, ok \in BOOLEAN : UpdateAnswered(i, ok)
    \/ QueueQuiet /\ \E a \in {"start", "pause", "delete"}, id \in Ids :
                        TableAction(a, id)
    \/ QueueQuiet /\ \E a \in Ids, b \in Ids : DragEnd(a, b)

NextQueue == QueueStep /\ UNCHANGED <<formVars, progressVars, checkVars, otherViews>>

SpecQueue == InitQueue /\ [][NextQueue]_vars

\* The operator also filters the table by platform.
NextFilter ==
    /\ \/ QueueStep
       \/ QueueQuiet /\ \E filter \in {"all", "instagram", "x"} :
                           setPlatformFilter(filter)
    /\ UNCHANGED <<formVars, progressVars, checkVars, otherViews>>

SpecFilter == InitQueue /\ [][NextFilter]_vars

\* handleDragEnd and handleReorder while the updates of the reorder before are
\* still awaited: the new order is shown and a second round of updates is
\* sent.
DragEndAgain(activeId, overId) ==
    /\ ~pageLoading
    /\ rq.pc = "updating"
    /\ rqOld.pc # "updating"
    /\ activeId \in ItemIds(filteredItems(items, platformFilter))
    /\ overId \in ItemIds(filteredItems(items, platformFilter))
    /\ activeId # overId
    /\ LET newOrder == arrayMove(items, IndexOf(items, activeId),
                                 IndexOf(items, overId))
       IN  /\ items' = newOrder
           /\ campaigns' = newOrder
           /\ rqOld' = rq
           /\ rq' = [pc |-> "updating", from |-> items, active |-> activeId,
                     over |-> overId, order |-> positionUpdates(newOrder),
                     pending |-> 1..Len(newOrder), failed |-> {}, error |-> 0]
    /\ toasts' = <<>>
    /\ last' = "DragEnd"
    /\ UNCHANGED <<store, pageLoading, fetching, platformFilter, act, faults>>

\* One update of the reorder before is answered; with its last answer that
\* handleReorder goes on.
OldUpdateAnswered(i, ok) ==
    /\ rqOld.pc = "updating"
    /\ i \in rqOld.pending
    /\ Answer(ok)
    /\ store' = IF ok THEN updatePosition(store, rqOld.order[i].id,
                                          rqOld.order[i].queue_position)
                      ELSE store
    /\ LET pending == rqOld.pending \ {i}
           failed == IF ok THEN rqOld.failed ELSE rqOld.failed \cup {i}
       IN  IF pending # {}
           THEN /\ rqOld' = [rqOld EXCEPT !.pending = pending, !.failed = failed]
                /\ toasts' = <<>>
                /\ last' = "UpdateAnswered"
                /\ UNCHANGED <<pageLoading, items, fetching, platformFilter>>
           ELSE /\ rqOld' = [rqOld EXCEPT !.pending = {}, !.failed = failed,
                                          !.error = firstError(failed),
                                          !.pc = IF failed = {} THEN "saved"
                                                                ELSE "failed"]
                /\ handleReorderDone(failed)
    /\ UNCHANGED <<campaigns, act, rq>>

\* Two reorders in quick succession on the table of InitQueue: the first
\* reorder of the session and one more while its updates are awaited, every
\* update succeeding.
NextRace ==
    /\ \/ \E ok \in BOOLEAN : FetchCampaignsDone(ok) /\ UNCHANGED rqOld
       \/ \E i \in Ids : UpdateAnswered(i, TRUE) /\ UNCHANGED rqOld
       \/ \E i \in Ids : OldUpdateAnswered(i, TRUE)
       \/ QueueQuiet /\ rq = NoReorder
                     /\ \E a \in Ids, b \in Ids : DragEnd(a, b) /\ UNCHANGED rqOld
       \/ fetching = 0 /\ \E a \in Ids, b \in Ids : DragEndAgain(a, b)
    /\ UNCHANGED <<formVars, progressVars, checkVars, accounts, accountList,
                   accountToast, jobs, activeJob, jobLoading, jobError, jcalls,
                   pcalls, stale>>

SpecRace == InitQueue /\ [][NextRace]_vars

\* ------------------------------------------------------- the progress view
\* A finished abort is forgotten at the next step of the view.
AbortKept == ab' = IF ab.pc = "done" THEN NoAbort ELSE ab

\* The fetchActiveCampaign effect has the dependencies previousStatus and
\* apiProgress?.status: when one of them changes, it runs again, closes over
\* the new values and calls fetchActiveCampaign at once.
Rearm(newPrev, newApi, pl) ==
    IF newPrev # previousStatus \/ newApi.status # apiProgress.status
    THEN /\ BagCardinality(pl) < MaxPolls
         /\ armed' = [previousStatus |-> newPrev, apiProgress |-> newApi]
         /\ polls' = fetchActiveCampaignCall(pl, newPrev, newApi)
    ELSE /\ armed' = armed
         /\ polls' = pl

\* fetchProgress, from its request to the end: on an answer it stores the
\* engine's state; a failure is logged.
FetchProgressAnswered(ok, data) ==
    /\ Answer(ok)
    /\ isLoading' = FALSE
    /\ IF ok
       THEN /\ apiProgress' = data
            /\ displayedPhase' = phase(data)
            /\ Rearm(previousStatus, data, polls)
       ELSE UNCHANGED <<apiProgress, displayedPhase, armed, polls>>
    /\ toasts' = <<>>
    /\ last' = "fetchProgress"
    /\ AbortKept
    /\ UNCHANGED <<store, engine, activeCampaign, previousStatus, isAborting>>

\* The interval of the fetchActiveCampaign effect fires.
PollTick ==
    /\ BagCardinality(polls) < MaxPolls
    /\ polls' = fetchActiveCampaignCall(polls, armed.previousStatus,
                                        armed.apiProgress)
    /\ toasts' = <<>>
    /\ last' = "PollTick"
    /\ AbortKept
    /\ UNCHANGED <<store, faults, engine, apiProgress, displayedPhase, isLoading,
                   activeCampaign, previousStatus, isAborting, armed>>

\* the summary notification fetchActiveCampaign chooses from apiProgress
summary(api) ==
    IF api.status = "error"
    THEN IF includes(toLowerCase(api.latest_sentence), "suspended")
         THEN <<"Account Suspended">>
         ELSE <<"Campaign failed">>
    ELSE IF api.status = "completed"
    THEN <<"Campaign completed successfully!">>
    ELSE <<>>

\* what GET comment_campaigns?status=eq.in-progress answers: the rows in
\* progress (data[0] is any of them), an error body that is no list, or
\* nothing
PollData(kind, id) ==
    IF kind # "ok" THEN kind ELSE IF id = 0 THEN "empty" ELSE "list"

\* fetchActiveCampaign from the answer of the store on, with the
\* previousStatus and the apiProgress of its closure.
PollAnswered(p, kind, id) ==
    LET data == PollData(kind, id)
        freed == polls (-) SetToBag({p})
        newPrev == IF data = "list" THEN "in-progress"
                   ELSE IF data \in {"empty", "notlist"}
                           /\ p.previousStatus = "in-progress"
                   THEN "completed"
                   ELSE previousStatus
    IN  /\ BagIn(p, polls)
        /\ Answer(kind = "ok")
        /\ IF kind = "ok" /\ InProgress(store) # {}
           THEN id \in InProgress(store)
           ELSE id = 0
        /\ toasts' = IF p.previousStatus = "in-progress" /\ data = "empty"
                     THEN summary(p.apiProgress)
                     ELSE <<>>
        /\ activeCampaign' = IF data = "list" THEN id
                             ELSE IF data \in {"empty", "notlist"} THEN 0
                             ELSE activeCampaign
        /\ previousStatus' = newPrev
        /\ Rearm(newPrev, apiProgress, freed)
        /\ last' = CASE data = "list" -> "PollList"
                     [] data = "empty" -> "PollEmpty"
                     [] data = "notlist" -> "PollNotList"
                     [] OTHER -> "PollThrew"
        /\ AbortKept
        /\ UNCHANGED <<store, engine, apiProgress, displayedPhase, isLoading, isAborting>>

\* The engine moves on.
EngineChange(e) ==
    /\ e # engine
    /\ engine' = e
    /\ toasts' = <<>>
    /\ last' = "environment"
    /\ AbortKept
    /\ UNCHANGED <<store, faults, apiProgress, displayedPhase, isLoading, activeCampaign,
                   previousStatus, isAborting, armed, polls>>

\* The operator starts a campaign from the table.
StartCampaign(id) ==
    /\ store[id].present
    /\ store[id].status = "not-started"
    /\ store' = updateCampaignStatus(store, id, "in-progress")
    /\ toasts' = <<>>
    /\ last' = "environment"
    /\ AbortKept
    /\ UNCHANGED <<faults, engine, apiProgress, displayedPhase, isLoading, activeCampaign,
                   previousStatus, isAborting, armed, polls>>

\* The operator pauses a campaign from the table.
PauseCampaign(id) ==
    /\ store[id].present
    /\ store[id].status = "in-progress"
    /\ store' = updateCampaignStatus(store, id, "not-started")
    /\ toasts' = <<>>
    /\ last' = "environment"
    /\ AbortKept
    /\ UNCHANGED <<faults, engine, apiProgress, displayedPhase, isLoading, activeCampaign,
                   previousStatus, isAborting, armed, polls>>

\* The engine finishes a campaign and marks it completed.
EngineFinish(id) ==
    /\ store[id].present
    /\ store[id].status = "in-progress"
    /\ store' = updateCampaignStatus(store, id, "completed")
    /\ toasts' = <<>>
    /\ last' = "environment"
    /\ AbortKept
    /\ UNCHANGED <<faults, engine, apiProgress, displayedPhase, isLoading, activeCampaign,
                   previousStatus, isAborting, armed, polls>>

\* The Abort button is rendered: the view is past its loading card and its
\* empty card (displayedPhase is "completed" only with status completed).
AbortOffered ==
    /\ ~isLoading
    /\ activeCampaign # 0
    /\ apiProgress.status \notin {"completed", "idle"}

\* handleAbortCampaign up to its first await
handleAbortCampaign ==
    /\ AbortOffered
    /\ ~isAborting
    /\ activeCampaign # 0
    /\ isAborting' = TRUE
    /\ ab' = [pc |-> "notify", id |-> activeCampaign, calls |-> <<"notify">>,
              notify |-> "none", patch |-> "none"]
    /\ toasts' = <<>>
    /\ last' = "AbortClick"
    /\ UNCHANGED <<store, faults, engine, apiProgress, displayedPhase, isLoading,
                   activeCampaign, previousStatus, armed, polls>>

\* (mutant) the PATCH follows whatever the notify answered
NotifyAnswered_ignoreFailure(outcome) ==
    /\ ab.pc = "notify"
    /\ Answer(outcome = "ok")
    /\ ab' = [ab EXCEPT !.pc = "patch", !.notify = outcome,
                        !.calls = Append(@, "patch")]
    /\ toasts' = <<>>
    /\ last' = "AbortNotified"
    /\ UNCHANGED <<store, engine, apiProgress, displayedPhase, isLoading, activeCampaign,
                   previousStatus, isAborting, armed, polls>>

\* POST /api/abort answers: ok, a response that is not ok, or a network error
NotifyAnswered(outcome) ==
    /\ ab.pc = "notify"
    /\ Answer(outcome = "ok")
    /\ IF outcome = "ok"
       THEN /\ ab' = [ab EXCEPT !.pc = "patch", !.notify = "ok",
                                !.calls = Append(@, "patch")]
            /\ toasts' = <<>>
            /\ isAborting' = isAborting
            /\ last' = "AbortNotified"
       ELSE /\ ab' = [ab EXCEPT !.pc = "done", !.notify = outcome]
            /\ toasts' = <<"Failed to abort campaign">>
            /\ isAborting' = FALSE
            /\ last' = "AbortNotifyFailed"
    /\ UNCHANGED <<store, engine, apiProgress, displayedPhase, isLoading, activeCampaign,
                   previousStatus, armed, polls>>

\* (mutant) success is reported whatever the PATCH answered
PatchAnswered_alwaysSuccess(outcome) ==
    /\ ab.pc = "patch"
    /\ Answer(outcome = "ok")
    /\ store' = IF outcome = "ok"
                THEN updateCampaignStatus(store, ab.id, "aborted")
                ELSE store
    /\ toasts' = <<"Campaign aborted">>
    /\ activeCampaign' = 0
    /\ ab' = [ab EXCEPT !.pc = "done", !.patch = outcome]
    /\ last' = IF outcome = "ok" THEN "AbortSucceeded" ELSE "AbortPatchFailed"
    /\ isAborting' = FALSE
    /\ UNCHANGED <<engine, apiProgress, displayedPhase, isLoading, previousStatus, armed, polls>>

\* PATCH comment_campaigns?campaign_id=eq.<id> {status: 'aborted'} answers
PatchAnswered(outcome) ==
    /\ ab.pc = "patch"
    /\ Answer(outcome = "ok")
    /\ IF outcome = "ok"
       THEN /\ store' = updateCampaignStatus(store, ab.id, "aborted")
            /\ toasts' = <<"Campaign aborted">>
            /\ activeCampaign' = 0
            /\ ab' = [ab EXCEPT !.pc = "done", !.patch = "ok"]
            /\ last' = "AbortSucceeded"
       ELSE /\ store' = store
            /\ toasts' = <<"Failed to abort campaign">>
            /\ activeCampaign' = activeCampaign
            /\ ab' = [ab EXCEPT !.pc = "done", !.patch = outcome]
            /\ last' = "AbortPatchFailed"
    /\ isAborting' = FALSE
    /\ UNCHANGED <<engine, apiProgress, displayedPhase, isLoading, previousStatus, armed, polls>>

Outcomes == {"ok", "notok", "throw"}

\* The progress view over a table of NumRunnable not-started campaigns.
InitProgress ==
    /\ store = [id \in Ids |->
                    IF id <= NumRunnable
                    THEN [present |-> TRUE, status |-> "not-started",
                          platform |-> "instagram",
                          queue_position |-> NullPos, created_at |-> id,
                          targeting_mode |-> "posts", target_date |-> Null,
                          number_of_posts |-> Number(DefaultPosts)]
                    ELSE NoRow]
    /\ toasts = <<>>
    /\ last = "mount"
    /\ faults = 0
    /\ ProgressMounted
    /\ CheckpointsMounted
    /\ OthersUnmounted
    /\ FormMounted
    /\ QueueUnmounted

ProgressStep ==
    \/ \E ok \in BOOLEAN : FetchProgressAnswered(ok, engine)
    \/ PollTick
    \/ \E p \in BagToSet(polls), kind \in {"ok", "notlist", "throw"},
          id \in Ids \cup {0} :
           PollAnswered(p, kind, id)
    \/ \E e \in EngineStates : EngineChange(e)
    \/ \E id \in Ids : StartCampaign(id)
    \/ \E id \in Ids : PauseCampaign(id)
    \/ \E id \in Ids : EngineFinish(id)
    \/ handleAbortCampaign
    \/ \E outcome \in Outcomes : NotifyAnswered(outcome)
    \/ \E outcome \in Outcomes : PatchAnswered(outcome)

\* (No checkpoint is emitted here: the reset of the checkpoint state on an
\* idle answer leaves it as it is.)
NextProgress == ProgressStep /\ UNCHANGED <<queueVars, formVars, checkVars, otherViews>>

SpecProgress == InitProgress /\ [][NextProgress]_vars

\* ------------------------------------------------------ the checkpoint feed
\* state of the view that the steps of the feed leave alone
viewState == <<apiProgress, displayedPhase, isLoading, activeCampaign, previousStatus,
               isAborting, armed, polls>>

\* The engine emits a checkpoint, at a new instant or at that of the last one.
EngineEmits(kind, sameInstant, max) ==
    /\ Len(feed) < max
    /\ sameInstant => feed # <<>>
    /\ feed' = Append(feed,
                 Checkpoint(kind, IF feed = <<>> THEN 1
                                  ELSE IF sameInstant THEN feed[Len(feed)].timestamp
                                  ELSE feed[Len(feed)].timestamp + 1))
    /\ toasts' = <<>>
    /\ last' = "environment"
    /\ AbortKept
    /\ UNCHANGED <<store, faults, engine, viewState, checkpoints,
                   seenCheckpointIds, shownErrorToasts, cpolls, errorToasts>>

\* The interval of the fetchCheckpoints effect fires; the effect has closed
\* over the current apiProgress?.status.
CheckpointsTick ==
    /\ BagCardinality(cpolls) < MaxPolls
    /\ cpolls' = fetchCheckpointsCall(cpolls, apiProgress.status)
    /\ toasts' = <<>>
    /\ last' = "CheckpointsTick"
    /\ AbortKept
    /\ UNCHANGED <<store, faults, engine, viewState, feed, checkpoints,
                   seenCheckpointIds, shownErrorToasts, errorToasts>>

\* The engine serves a request for the checkpoints.
CheckpointsServed(c) ==
    /\ BagIn(c, cpolls)
    /\ c.n < 0
    /\ cpolls' = (cpolls (-) SetToBag({c})) (+) SetToBag({[c EXCEPT !.n = Len(feed)]})
    /\ toasts' = <<>>
    /\ last' = "CheckpointsServed"
    /\ AbortKept
    /\ UNCHANGED <<store, faults, engine, viewState, feed, checkpoints,
                   seenCheckpointIds, shownErrorToasts, errorToasts>>

\* the title of the notification for a failure checkpoint
errorTitle(c) ==
    IF includes(toLowerCase(c.message), "suspended")
    THEN "Account Suspended"
    ELSE "Campaign encountered errors"

\* one more copy in a bag that counts up to two
Noted(bag, e) == IF CopiesIn(e, bag) < 2 THEN bag (+) SetToBag({e}) ELSE bag

\* fetchCheckpoints after its await
CheckpointsApplied(c) ==
    LET resp == CheckpointsResponse(feed, c.n)
        f == FilterNew(resp, 1, seenCheckpointIds, <<>>)
        failures == recentFailures(resp)
        notify == /\ failures # <<>>
                  /\ c.status = "error"
                  /\ errorId(failures[1]) \notin shownErrorToasts
    IN  /\ BagIn(c, cpolls)
        /\ c.n >= 0
        /\ cpolls' = cpolls (-) SetToBag({c})
        /\ IF resp # <<>>
           THEN /\ seenCheckpointIds' = f.seen
                /\ checkpoints' = IF f.new # <<>> THEN Merge(checkpoints, f.new)
                                  ELSE checkpoints
                /\ IF notify
                   THEN /\ shownErrorToasts' =
                               shownErrorToasts \cup {errorId(failures[1])}
                        /\ toasts' = <<errorTitle(failures[1])>>
                        /\ errorToasts' = Noted(errorToasts, errorId(failures[1]))
                   ELSE /\ toasts' = <<>>
                        /\ UNCHANGED <<shownErrorToasts, errorToasts>>
           ELSE /\ toasts' = <<>>
                /\ UNCHANGED <<checkpoints, seenCheckpointIds, shownErrorToasts,
                               errorToasts>>
        /\ last' = "fetchCheckpoints"
        /\ AbortKept
        /\ UNCHANGED <<store, faults, engine, viewState, feed>>

\* fetchCheckpoints when its request fails: the error is logged
CheckpointsFailed(c) ==
    /\ BagIn(c, cpolls)
    /\ Answer(FALSE)
    /\ cpolls' = cpolls (-) SetToBag({c})
    /\ toasts' = <<>>
    /\ last' = "CheckpointsFailed"
    /\ AbortKept
    /\ UNCHANGED <<store, engine, viewState, feed, checkpoints,
                   seenCheckpointIds, shownErrorToasts, errorToasts>>

\* fetchProgress with what it does to the checkpoints: the fetchCheckpoints
\* effect runs again when apiProgress?.status changes, and an idle answer
\* clears the refs and the window.
fetchProgress(ok, data) ==
    /\ FetchProgressAnswered(ok, data)
    /\ IF ok /\ data.status # apiProgress.status
       THEN /\ BagCardinality(cpolls) < MaxPolls
            /\ cpolls' = fetchCheckpointsCall(cpolls, data.status)
       ELSE cpolls' = cpolls
    /\ IF ok /\ data.status = "idle"
       THEN /\ seenCheckpointIds' = {}
            /\ shownErrorToasts' = {}
            /\ checkpoints' = <<>>
       ELSE UNCHANGED <<seenCheckpointIds, shownErrorToasts, checkpoints>>
    /\ UNCHANGED <<feed, errorToasts>>

\* The queue page shows its loading card during fetchCampaigns and then
\* renders the view again: a new instance with new state and new refs.
\* (Taken when no call of the old instance is awaiting its response.)
Remount ==
    /\ BagCardinality(polls) = 0
    /\ BagCardinality(cpolls) = 0
    /\ ab.pc \notin {"notify", "patch"}
    /\ apiProgress' = NoProgress
    /\ displayedPhase' = "idle"
    /\ isLoading' = TRUE
    /\ activeCampaign' = 0
    /\ previousStatus' = "null"
    /\ isAborting' = FALSE
    /\ armed' = [previousStatus |-> "null", apiProgress |-> NoProgress]
    /\ polls' = fetchActiveCampaignCall(EmptyBag, "null", NoProgress)
    /\ ab' = NoAbort
    /\ checkpoints' = <<>>
    /\ seenCheckpointIds' = {}
    /\ shownErrorToasts' = {}
    /\ cpolls' = fetchCheckpointsCall(EmptyBag, "undefined")
    /\ toasts' = <<>>
    /\ last' = "Remount"
    /\ UNCHANGED <<store, faults, engine, feed, errorToasts>>

\* the 'Account Suspended' notifications, counted up to two
CountSuspended ==
    suspendedToasts' =
        LET n == suspendedToasts +
                 Cardinality({i \in DOMAIN toasts' : toasts'[i] = "Account Suspended"})
        IN  IF n < 2 THEN n ELSE 2

Running == [status |-> "running", latest_sentence |-> <<"Commenting">>]

Suspended == [status |-> "error", latest_sentence |-> <<"Account", "Suspended">>]

CommentCheckpoint ==
    [type |-> "comment", status |-> "success", message |-> <<"Commented">>]

SuspendedCheckpoint ==
    [type |-> "campaign", status |-> "failure",
     message |-> <<"Account", "Suspended">>]

\* The view over a table without campaigns; the engine reports what it likes.
InitErrors ==
    /\ store = [id \in Ids |-> NoRow]
    /\ toasts = <<>>
    /\ last = "mount"
    /\ faults = 0
    /\ ProgressMounted
    /\ CheckpointsMounted
    /\ OthersUnmounted
    /\ FormMounted
    /\ QueueUnmounted

ErrorsStep ==
    \/ fetchProgress(TRUE, engine)
    \/ \E p \in BagToSet(polls) : PollAnswered(p, "ok", 0) /\ UNCHANGED feedVars
    \/ \E e \in {Idle, Running, Suspended} : EngineChange(e) /\ UNCHANGED feedVars
    \/ \E kind \in {CommentCheckpoint, SuspendedCheckpoint} :
           EngineEmits(kind, FALSE, MaxFeed)
    \/ CheckpointsTick
    \/ \E c \in BagToSet(cpolls) : CheckpointsServed(c)
    \/ \E c \in BagToSet(cpolls) : CheckpointsApplied(c)
    \/ Remount

NextErrors ==
    ErrorsStep /\ UNCHANGED <<queueVars, formVars, suspendedToasts, otherViews>>

SpecErrors == InitErrors /\ [][NextErrors]_vars

\* The view over a campaign that is in progress, the engine running.
InitSuspension ==
    /\ store = [id \in Ids |->
                    IF id <= NumRunnable
                    THEN [present |-> TRUE, status |-> "in-progress",
                          platform |-> "instagram",
                          queue_position |-> NullPos, created_at |-> id,
                          targeting_mode |-> "posts", target_date |-> Null,
                          number_of_posts |-> Number(DefaultPosts)]
                    ELSE NoRow]
    /\ toasts = <<>>
    /\ last = "mount"
    /\ faults = 0
    /\ engine = Running
    /\ apiProgress = NoProgress
    /\ displayedPhase = "idle"
    /\ isLoading = TRUE
    /\ activeCampaign = 0
    /\ previousStatus = "null"
    /\ isAborting = FALSE
    /\ armed = [previousStatus |-> "null", apiProgress |-> NoProgress]
    /\ polls = fetchActiveCampaignCall(EmptyBag, "null", NoProgress)
    /\ ab = NoAbort
    /\ CheckpointsMounted
    /\ OthersUnmounted
    /\ FormMounted
    /\ QueueUnmounted

\* The engine runs, then fails with the suspension message and emits the
\* failure checkpoint; then the campaign leaves the in-progress query.
SuspensionStep ==
    \/ fetchProgress(TRUE, engine)
    \/ PollTick /\ UNCHANGED feedVars
    \/ \E p \in BagToSet(polls), id \in Ids \cup {0} :
           PollAnswered(p, "ok", id) /\ UNCHANGED feedVars
    \/ engine = Running /\ EngineChange(Suspended) /\ UNCHANGED feedVars
    \/ \E id \in Ids : engine = Suspended /\ EngineFinish(id) /\ UNCHANGED feedVars
    \/ engine = Suspended /\ EngineEmits(SuspendedCheckpoint, FALSE, 1)
    \/ CheckpointsTick
    \/ \E c \in BagToSet(cpolls) : CheckpointsServed(c)
    \/ \E c \in BagToSet(cpolls) : CheckpointsApplied(c)

NextSuspension ==
    SuspensionStep /\ CountSuspended
    /\ UNCHANGED <<queueVars, formVars, otherViews>>

SpecSuspension == InitSuspension /\ [][NextSuspension]_vars

\* checkpoints the engine has emitted when the view mounts
FeedAtMount == 10

\* checkpoints the engine emits in a long run: more than the rolling window
MaxLong == 12

\* checkpoints of a long run emitted at the instant of their predecessor
MaxSame == 1

\* The view mounts while a run is under way: the feed holds the comments of
\* the run so far, one per instant.
InitFeed ==
    /\ store = [id \in Ids |-> NoRow]
    /\ toasts = <<>>
    /\ last = "mount"
    /\ faults = 0
    /\ ProgressMounted
    /\ feed = [i \in 1..FeedAtMount |-> Checkpoint(CommentCheckpoint, i)]
    /\ checkpoints = <<>>
    /\ seenCheckpointIds = {}
    /\ shownErrorToasts = {}
    /\ cpolls = fetchCheckpointsCall(EmptyBag, "undefined")
    /\ errorToasts = EmptyBag
    /\ suspendedToasts = 0
    /\ OthersUnmounted
    /\ FormMounted
    /\ QueueUnmounted

\* The engine goes on emitting; requests overlap, are served at different
\* lengths of the feed, fail, and an idle engine clears the window.
FeedStep ==
    \/ fetchProgress(TRUE, engine)
    \/ \E p \in BagToSet(polls) : PollAnswered(p, "ok", 0) /\ UNCHANGED feedVars
    \/ \E e \in {Idle, Running} : EngineChange(e) /\ UNCHANGED feedVars
    \/ \E sameInstant \in BOOLEAN :
           /\ sameInstant => Len(feed) - feed[Len(feed)].timestamp < MaxSame
           /\ EngineEmits(CommentCheckpoint, sameInstant, MaxLong)
    \/ CheckpointsTick
    \/ \E c \in BagToSet(cpolls) : CheckpointsServed(c)
    \/ \E c \in BagToSet(cpolls) : CheckpointsApplied(c)
    \/ \E c \in BagToSet(cpolls) : CheckpointsFailed(c)

NextFeed == FeedStep /\ UNCHANGED <<queueVars, formVars, suspendedToasts, otherViews>>

SpecFeed == InitFeed /\ [][NextFeed]_vars

\* -------------------------------------------------------- the accounts page
\* usernames the operator enters
NumAccountNames == 2

\* The errors createSocialAccount and deleteSocialAccount hand to the page:
\* constraint violations, failures of the request, of the session, of a
\* policy, and an error without a message.
StoreErrors ==
    { [code |-> "23505", message |-> <<"d", "u", "p", "l", "i", "c", "a", "t", "e", " ", "k", "e", "y">>],
      [code |-> "23502", message |-> <<"n", "u", "l", "l", " ", "i", "n", " ", "a", "u", "t", "h">>],
      [code |-> "23514", message |-> <<"b", "a", "d", " ", "p", "l", "a", "t", "f", "o", "r", "m">>],
      [code |-> "", message |-> <<"F", "a", "i", "l", "e", "d", " ", "t", "o", " ", "f", "e", "t", "c", "h">>],
      [code |-> "", message |-> <<"n", "e", "t", "w", "o", "r", "k", " ", "d", "o", "w", "n">>],
      [code |-> "PGRST301", message |-> <<"J", "W", "T", " ", "e", "x", "p", "i", "r", "e", "d">>],
      [code |-> "", message |-> <<"a", "u", "t", "h", " ", "f", "a", "i", "l", "e", "d">>],
      [code |-> "", message |-> <<"J", "W", "T", " ", "f", "e", "t", "c", "h">>],
      [code |-> "42501", message |-> <<"p", "e", "r", "m", "i", "s", "s", "i", "o", "n", " ", "d", "e", "n", "i", "e", "d">>],
      [code |-> "", message |-> <<>>] }

\* a result of getErrorMessage: one of its fixed texts or the error's message
Fixed(text) == [kind |-> "fixed", text |-> text]

\* a translation that looks for an authentication failure first
getErrorMessage_authFirst(error) ==
    IF error.code = "23505"
    THEN Fixed("An account with this username already exists for this platform")
    ELSE IF error.code = "23502"
    THEN Fixed("Required fields are missing. Please fill in all required information.")
    ELSE IF error.code = "23514"
    THEN Fixed("Invalid platform selected")
    ELSE IF \/ includesText(error.message, <<"J", "W", "T">>)
            \/ includesText(error.message, <<"a", "u", "t", "h">>)
    THEN Fixed("Authentication error. Please refresh the page and try again.")
    ELSE IF \/ includesText(error.message, <<"f", "e", "t", "c", "h">>)
            \/ includesText(error.message, <<"n", "e", "t", "w", "o", "r", "k">>)
    THEN Fixed("Connection error. Please check your internet connection and try again.")
    ELSE IF error.message # <<>>
    THEN [kind |-> "message", text |-> error.message]
    ELSE Fixed("An unexpected error occurred. Please try again.")

getErrorMessage(error) ==
    IF error.code = "23505"
    THEN Fixed("An account with this username already exists for this platform")
    ELSE IF error.code = "23502"
    THEN Fixed("Required fields are missing. Please fill in all required information.")
    ELSE IF error.code = "23514"
    THEN Fixed("Invalid platform selected")
    ELSE IF \/ includesText(error.message, <<"f", "e", "t", "c", "h">>)
            \/ includesText(error.message, <<"n", "e", "t", "w", "o", "r", "k">>)
    THEN Fixed("Connection error. Please check your internet connection and try again.")
    ELSE IF \/ includesText(error.message, <<"J", "W", "T">>)
            \/ includesText(error.message, <<"a", "u", "t", "h">>)
    THEN Fixed("Authentication error. Please refresh the page and try again.")
    ELSE IF error.message # <<>>
    THEN [kind |-> "message", text |-> error.message]
    ELSE Fixed("An unexpected error occurred. Please try again.")

\* handleSaveNewAccount for a valid form: the insert succeeds, fails on the
\* unique constraint when the account exists, or fails otherwise (answer:
\* the error, or code "ok" for none).
handleSaveNewAccount(username, platform, answer) ==
    LET account == [username |-> username, platform |-> platform]
    IN  /\ IF account \in accounts
           THEN answer.code = "23505"
           ELSE answer.code # "23505"
        /\ IF answer.code = "ok"
           THEN /\ accounts' = accounts \cup {account}
                /\ accountList' = accounts'
                /\ accountToast' = NoAccountToast
                /\ toasts' = <<"Account created successfully!">>
                /\ last' = "AccountCreated"
           ELSE /\ accountToast' = [error |-> answer,
                                    shown |-> getErrorMessage(answer)]
                /\ toasts' = <<>>
                /\ last' = "AccountError"
                /\ UNCHANGED <<accounts, accountList>>

\* handleConfirmDelete for the selected account
handleConfirmDelete(account, answer) ==
    /\ account \in accountList
    /\ IF answer.code = "ok"
       THEN /\ accounts' = accounts \ {account}
            /\ accountList' = accounts'
            /\ accountToast' = NoAccountToast
            /\ toasts' = <<"Account deleted successfully">>
            /\ last' = "AccountDeleted"
       ELSE /\ answer.code \notin {"23505", "23502", "23514"}
            /\ accountToast' = [error |-> answer, shown |-> getErrorMessage(answer)]
            /\ toasts' = <<>>
            /\ last' = "AccountError"
            /\ UNCHANGED <<accounts, accountList>>

InitAccounts ==
    /\ store = [id \in Ids |-> NoRow]
    /\ toasts = <<>>
    /\ last = "mount"
    /\ faults = 0
    /\ FormMounted
    /\ QueueUnmounted
    /\ ProgressMounted
    /\ CheckpointsMounted
    /\ OthersUnmounted

NextAccounts ==
    /\ \E answer \in StoreErrors \cup {[code |-> "ok", message |-> <<>>]} :
          \/ \E username \in 1..NumAccountNames, platform \in {"instagram", "x"} :
                 handleSaveNewAccount(username, platform, answer)
          \/ \E account \in accountList : handleConfirmDelete(account, answer)
    /\ UNCHANGED <<store, faults, queueVars, formVars, progressVars, checkVars,
                   jobs, activeJob, jobLoading, jobError, jcalls, pcalls, stale,
                rqOld>>

SpecAccounts == InitAccounts /\ [][NextAccounts]_vars

\* --------------------------------------------------------- the job provider
\* provider calls in flight
MaxJobCalls == 2

mostRecent_oldest(tbl, statuses) ==
    LET S == {j \in DOMAIN tbl : tbl[j] \in statuses}
    IN  IF S = {} THEN 0 ELSE CHOOSE j \in S : \A k \in S : j <= k

\* .order('created_at', { ascending: false }).limit(1): the newest of the
\* jobs with one of the given statuses, 0 when there is none
mostRecent(tbl, statuses) ==
    LET S == {j \in DOMAIN tbl : tbl[j] \in statuses}
    IN  IF S = {} THEN 0 ELSE CHOOSE j \in S : \A k \in S : k <= j

\* A provider call starts: setIsLoading(true), setError(null), the query is
\* sent.  (changed: history, the table was written while the call awaited.)
ProviderCall(calls, op, jobId) ==
    /\ BagCardinality(calls) < MaxJobCalls
    /\ jobLoading' = TRUE
    /\ jobError' = "null"
    /\ jcalls' = calls (+) SetToBag({[op |-> op, jobId |-> jobId,
                                      changed |-> FALSE]})

\* fetchActiveJob up to its first await (refetch)
fetchActiveJob ==
    /\ ProviderCall(jcalls, "active", 0)
    /\ toasts' = <<>>
    /\ last' = "fetchActiveJob"
    /\ UNCHANGED <<faults, jobs, activeJob>>

\* setActiveJobById up to its await
setActiveJobById(jobId) ==
    /\ ProviderCall(jcalls, "byid", jobId)
    /\ toasts' = <<>>
    /\ last' = "setActiveJobById"
    /\ UNCHANGED <<faults, jobs, activeJob>>

\* A row of scraping_jobs is written; the subscription of the provider calls
\* fetchActiveJob.
JobChange(j, status) ==
    /\ jobs[j] # status
    /\ status = "absent" => j = mostRecent(jobs, {"active", "completed"})
    /\ jobs[j] = "absent" => \A k \in 1..(j - 1) : jobs[k] # "absent"
    /\ jobs' = [jobs EXCEPT ![j] = status]
    /\ ProviderCall(BagOfAll(LAMBDA c : [c EXCEPT !.changed = TRUE], jcalls),
                    "active", 0)
    /\ toasts' = <<>>
    /\ last' = "JobChange"
    /\ UNCHANGED <<faults, activeJob>>

\* fetchActiveJob after its first query (status = 'active')
ActiveJobsAnswered(c, ok) ==
    LET found == mostRecent(jobs, {"active"})
    IN  /\ BagIn(c, jcalls)
        /\ c.op = "active"
        /\ Answer(ok)
        /\ toasts' = <<>>
        /\ jobs' = jobs
        /\ IF ~ok
           THEN /\ jobError' = "Failed to fetch active job"
                /\ activeJob' = 0
                /\ jobLoading' = FALSE
                /\ jcalls' = jcalls (-) SetToBag({c})
                /\ last' = "JobFetchFailed"
           ELSE IF found # 0
           THEN /\ activeJob' = found
                /\ jobLoading' = FALSE
                /\ jcalls' = jcalls (-) SetToBag({c})
                /\ last' = "JobLoaded"
                /\ jobError' = jobError
           ELSE /\ jcalls' = (jcalls (-) SetToBag({c}))
                                 (+) SetToBag({[c EXCEPT !.op = "recent"]})
                /\ last' = "JobQuery"
                /\ UNCHANGED <<activeJob, jobLoading, jobError>>

\* fetchActiveJob after its second query (the most recent job)
RecentJobsAnswered(c, ok) ==
    /\ BagIn(c, jcalls)
    /\ c.op = "recent"
    /\ Answer(ok)
    /\ toasts' = <<>>
    /\ jobs' = jobs
    /\ jcalls' = jcalls (-) SetToBag({c})
    /\ jobLoading' = FALSE
    /\ IF ok
       THEN /\ activeJob' = mostRecent(jobs, {"active", "completed"})
            /\ jobError' = jobError
            /\ last' = "JobLoaded"
       ELSE /\ jobError' = "Failed to fetch recent job"
            /\ activeJob' = 0
            /\ last' = "JobFetchFailed"

\* setActiveJobById after its query: .single() is an error without a row
JobAnswered(c, ok) ==
    /\ BagIn(c, jcalls)
    /\ c.op = "byid"
    /\ Answer(ok)
    /\ toasts' = <<>>
    /\ jobs' = jobs
    /\ jcalls' = jcalls (-) SetToBag({c})
    /\ jobLoading' = FALSE
    /\ IF ok /\ jobs[c.jobId] # "absent"
       THEN /\ activeJob' = c.jobId
            /\ jobError' = jobError
            /\ last' = "JobSet"
       ELSE /\ jobError' = "Failed to fetch job"
            /\ activeJob' = activeJob
            /\ last' = "JobSetFailed"

\* The provider mounts over an empty table: fetchActiveJob is awaiting.
InitJobs ==
    /\ store = [id \in Ids |-> NoRow]
    /\ toasts = <<>>
    /\ last = "mount"
    /\ faults = 0
    /\ FormMounted
    /\ QueueUnmounted
    /\ ProgressMounted
    /\ CheckpointsMounted
    /\ accounts = {}
    /\ accountList = {}
    /\ accountToast = NoAccountToast
    /\ jobs = [j \in 1..NumJobs |-> "absent"]
    /\ activeJob = 0
    /\ jobLoading = TRUE
    /\ jobError = "null"
    /\ jcalls = SetToBag({[op |-> "active", jobId |-> 0, changed |-> FALSE]})
    /\ pcalls = <<>>
    /\ stale = FALSE
    /\ rqOld = NoReorder

NextJobs ==
    /\ \/ fetchActiveJob
       \/ \E jobId \in 1..NumJobs : setActiveJobById(jobId)
       \/ \E j \in 1..NumJobs, status \in {"absent", "active", "completed"} :
              JobChange(j, status)
       \/ \E c \in BagToSet(jcalls), ok \in BOOLEAN : ActiveJobsAnswered(c, ok)
       \/ \E c \in BagToSet(jcalls), ok \in BOOLEAN : RecentJobsAnswered(c, ok)
       \/ \E c \in BagToSet(jcalls), ok \in BOOLEAN : JobAnswered(c, ok)
    /\ UNCHANGED <<store, queueVars, formVars, progressVars, checkVars,
                   accounts, accountList, accountToast, pcalls, stale, rqOld>>

SpecJobs == InitJobs /\ [][NextJobs]_vars

\* ------------------------------------------------------- the status loop
\* fetchProgress calls that may be awaiting their response at a time
MaxProgressCalls == 2

\* answers of GET /api/progress/current with their sentences letter by letter
StatusAnswers ==
    { Idle,
      [status |-> "running",
       latest_sentence |-> <<"N", "a", "v", "i", "g", "a", "t", "i", "n", "g", " ", "t", "o", " ", "c", "o", "m", "m", "e", "n", "t">>],
      [status |-> "running",
       latest_sentence |-> <<"C", "o", "m", "m", "e", "n", "t", "i", "n", "g">>],
      [status |-> "running",
       latest_sentence |-> <<"L", "o", "g", "i", "n", ":", " ", "c", "o", "n", "n", "e", "c", "t", "i", "n", "g">>],
      [status |-> "running",
       latest_sentence |-> <<"C", "o", "n", "n", "e", "c", "t", "i", "n", "g">>],
      [status |-> "running",
       latest_sentence |-> <<"W", "a", "i", "t", "i", "n", "g">>],
      [status |-> "running",
       latest_sentence |-> <<"C", "o", "o", "l", "d", "o", "w", "n">>],
      [status |-> "running",
       latest_sentence |-> <<"S", "t", "a", "r", "t", "i", "n", "g">>],
      [status |-> "completed",
       latest_sentence |-> <<"D", "o", "n", "e">>],
      [status |-> "error",
       latest_sentence |-> <<"L", "o", "g", "i", "n", " ", "f", "a", "i", "l", "e", "d">>] }

\* The engine reports every kind of sentence; each poll of the status is
\* taken from its request to its end, after the requests of the other loops
\* have been answered.
NextPhase ==
    /\ \/ \E ok \in BOOLEAN :
              /\ polls = EmptyBag
              /\ cpolls = EmptyBag
              /\ fetchProgress(ok, engine)
       \/ \E e \in StatusAnswers : EngineChange(e) /\ UNCHANGED feedVars
       \/ \E p \in BagToSet(polls) : PollAnswered(p, "ok", 0) /\ UNCHANGED feedVars
       \/ \E c \in BagToSet(cpolls) : CheckpointsServed(c)
       \/ \E c \in BagToSet(cpolls) : CheckpointsApplied(c)
    /\ UNCHANGED <<queueVars, formVars, suspendedToasts, otherViews>>

SpecPhase == InitProgress /\ [][NextPhase]_vars

\* The interval of the fetchProgress effect fires: a request is sent, whether
\* or not an earlier one is still awaiting its response.
\* (data: NoProgress until the engine has served the request; overtaken:
\* history, the answer to a later request has been stored.)
ProgressTick ==
    /\ Len(pcalls) < MaxProgressCalls
    /\ pcalls' = Append(pcalls, [data |-> NoProgress, overtaken |-> FALSE])
    /\ toasts' = <<>>
    /\ last' = "ProgressTick"
    /\ AbortKept
    /\ UNCHANGED <<store, faults, engine, viewState, feedVars, stale>>

\* The engine serves a request for its status.
ProgressServed(i) ==
    /\ pcalls[i].data = NoProgress
    /\ pcalls' = [pcalls EXCEPT ![i].data = engine]
    /\ toasts' = <<>>
    /\ last' = "ProgressServed"
    /\ AbortKept
    /\ UNCHANGED <<store, faults, engine, viewState, feedVars, stale>>

ProgressArrived_sequenced(i, ok) ==
    /\ ok => pcalls[i].data # NoProgress
    /\ pcalls' = [j \in 1..(Len(pcalls) - 1) |->
                     IF j < i
                     THEN [pcalls[j] EXCEPT !.overtaken = @ \/ ok]
                     ELSE pcalls[j + 1]]
    /\ IF ok /\ pcalls[i].overtaken
       THEN /\ toasts' = <<>>
            /\ last' = "fetchProgress"
            /\ AbortKept
            /\ UNCHANGED <<store, faults, engine, viewState, feedVars, stale>>
       ELSE /\ fetchProgress(ok, pcalls[i].data)
            /\ stale' = IF ok THEN pcalls[i].overtaken ELSE stale

\* fetchProgress after its await: the response of a request arrives (ok) or
\* the request fails.
ProgressArrived(i, ok) ==
    /\ ok => pcalls[i].data # NoProgress
    /\ fetchProgress(ok, pcalls[i].data)
    /\ pcalls' = [j \in 1..(Len(pcalls) - 1) |->
                     IF j < i
                     THEN [pcalls[j] EXCEPT !.overtaken = @ \/ ok]
                     ELSE pcalls[j + 1]]
    /\ stale' = IF ok THEN pcalls[i].overtaken ELSE stale

\* The view right after its mount over an empty table: the first request of
\* every loop is awaiting its response.
InitStatus ==
    /\ store = [id \in Ids |-> NoRow]
    /\ toasts = <<>>
    /\ last = "mount"
    /\ faults = 0
    /\ FormMounted
    /\ QueueUnmounted
    /\ ProgressMounted
    /\ CheckpointsMounted
    /\ accounts = {}
    /\ accountList = {}
    /\ accountToast = NoAccountToast
    /\ jobs = [j \in 1..NumJobs |-> "absent"]
    /\ activeJob = 0
    /\ jobLoading = TRUE
    /\ jobError = "null"
    /\ jcalls = EmptyBag
    /\ pcalls = <<[data |-> NoProgress, overtaken |-> FALSE]>>
    /\ stale = FALSE
    /\ rqOld = NoReorder

NextStatus ==
    /\ \/ ProgressTick
       \/ \E i \in DOMAIN pcalls : ProgressServed(i)
       \/ \E i \in DOMAIN pcalls, ok \in BOOLEAN : ProgressArrived(i, ok)
       \/ \E e \in {Idle, Running} :
              EngineChange(e) /\ UNCHANGED <<feedVars, pcalls, stale>>
       \/ \E p \in BagToSet(polls) :
              PollAnswered(p, "ok", 0) /\ UNCHANGED <<feedVars, pcalls, stale>>
       \/ \E c \in BagToSet(cpolls) :
              CheckpointsServed(c) /\ UNCHANGED <<pcalls, stale>>
       \/ \E c \in BagToSet(cpolls) :
              CheckpointsApplied(c) /\ UNCHANGED <<pcalls, stale>>
    /\ UNCHANGED <<queueVars, formVars, suspendedToasts, accounts, accountList,
                   accountToast, jobs, activeJob, jobLoading, jobError, jcalls,
                   rqOld>>

SpecStatus == InitStatus /\ [][NextStatus]_vars

\* ------------------------------------------------------- claims on the queue
\* C3: in every reachable state of the table at most one campaign has status
\* in-progress.  (The code offers Start Now on every not-started row and
\* updateCampaignStatus has no guard: the statement is violated.)
C3_AtMostOneInProgress == Cardinality(InProgress(store)) <= 1

SeqIds(seq) == [i \in 1..Len(seq) |-> seq[i].id]

Without(seq, id) == SelectSeq(seq, LAMBDA x : x # id)

Newest(st) ==
    CHOOSE id \in Present(st) :
        \A other \in Present(st) : st[other].created_at <= st[id].created_at

\* C6: a successful submission writes a new campaign with status not-started
\* and queue position = queue length + 1, the length counted before the
\* insert.  (The form gives no queue_position: the statement is violated.)
C6_InsertAtEnd ==
    last = "InsertOk" =>
        /\ store[Newest(store)].status = "not-started"
        /\ store[Newest(store)].queue_position =
               (Cardinality(Present(store)) - 1) + 1

\* C7: every campaign the form wrote has exactly the targeting value of its
\* mode: mode date has a target_date and no number_of_posts, mode posts has a
\* number_of_posts >= 1 and no target_date.
C7_TargetingExclusive ==
    \A id \in Present(store) :
        LET r == store[id]
        IN  /\ r.targeting_mode \in {"date", "posts"}
            /\ r.targeting_mode = "date" =>
                   /\ r.target_date.t = "string"
                   /\ r.number_of_posts = Null
            /\ r.targeting_mode = "posts" =>
                   /\ r.number_of_posts.t = "number"
                   /\ r.number_of_posts.v >= 1
                   /\ r.target_date = Null

\* C7 witness: the form held a post count and a date when it was submitted in
\* mode date, after an earlier campaign was written in mode posts.
C7_Witness ==
    /\ last = "InsertOk"
    /\ ins.config.targetingMode = "date"
    /\ ins.config.numberOfPosts >= 1
    /\ ins.config.targetDate.t = "Date"
    /\ store[Newest(store)].targeting_mode = "date"
    /\ \E id \in Present(store) : store[id].targeting_mode = "posts"

\* The checks of the form in the order of the claim, each with its message.
NonBlank(c) == \E i \in 1..Len(c) : c[i] # " "

FormChecks(cfg) ==
    << [fails |-> ~NonBlank(cfg.customComment),
        msg |-> "Please enter a custom comment"],
       [fails |-> cfg.platform = "",
        msg |-> "Please select a platform"],
       [fails |-> cfg.userAccounts = <<>>,
        msg |-> "Please add at least one user account"],
       [fails |-> cfg.targetProfiles = <<>>,
        msg |-> "Please add at least one target profile"],
       [fails |-> IF cfg.targetingMode = "date"
                  THEN cfg.targetDate = Undefined
                  ELSE ~(cfg.numberOfPosts >= 1),
        msg |-> IF cfg.targetingMode = "date"
                THEN "Please select a target date"
                ELSE "Please enter a valid number of posts"] >>

Failing(cfg) == {i \in 1..Len(FormChecks(cfg)) : FormChecks(cfg)[i].fails}

FirstFailing(cfg) == CHOOSE i \in Failing(cfg) : \A j \in Failing(cfg) : i <= j

\* C8: a submission of an invalid form reports exactly one error, that of the
\* first failing check in the order comment, platform, operator account,
\* target profile, value of the active targeting mode; it writes no record,
\* starts no insert and leaves the form and its draft as they were.  A
\* submission goes on to the insert only when no check fails.
C8_FailFast ==
    [][ /\ last' = "SubmitRejected" =>
            /\ Failing(config) # {}
            /\ toasts' = <<FormChecks(config)[FirstFailing(config)].msg>>
            /\ store' = store
            /\ config' = config
            /\ currentTargetProfile' = currentTargetProfile
            /\ draft' = draft
            /\ isSaving' = isSaving
            /\ ins' = ins
            /\ ins.pc # "await"
        /\ last' = "SubmitStart" => Failing(config) = {}
      ]_vars

\* C8 witness: three checks fail and the one of the platform is reported.
C8_Witness ==
    /\ last = "SubmitRejected"
    /\ Failing(config) = {2, 3, 4}
    /\ toasts = <<"Please select a platform">>
    /\ Present(store) = {}

NoDuplicates(seq) == \A i, j \in 1..Len(seq) : seq[i] = seq[j] => i = j

\* C9 as stated: after an add or a remove the list of target profiles has
\* between 1 and 5 entries.  (Removing the only profile leaves it empty: the
\* statement is violated.)
C9_Between1And5 ==
    last \in {"TargetAdded", "removeTargetProfile"} =>
        Len(config.targetProfiles) \in 1..MaxTargets

\* C9, amended: after any sequence of adds and removes the list of target
\* profiles has between 0 and 5 entries, all different; every campaign the
\* form submits has between 1 and 5; an attempt to add a sixth profile is
\* rejected with the notification and leaves the list, the form and the draft
\* unchanged.
C9_AtMost5 ==
    /\ [](/\ Len(config.targetProfiles) \in 0..MaxTargets
          /\ NoDuplicates(config.targetProfiles)
          /\ ins.pc # "idle" => Len(ins.target_profiles) \in 1..MaxTargets)
    /\ [][ last' = "TargetLimit" =>
             /\ Len(config.targetProfiles) = MaxTargets
             /\ config' = config
             /\ draft' = draft
             /\ toasts' = <<"Maximum of 5 target profiles allowed">>
         ]_vars

\* C9 witness: five profiles, a sixth name typed, the add rejected.
C9_Witness ==
    /\ last = "TargetLimit"
    /\ Len(config.targetProfiles) = MaxTargets
    /\ currentTargetProfile.name # 0
    /\ ~Includes(config.targetProfiles, currentTargetProfile.name)
    /\ toasts = <<"Maximum of 5 target profiles allowed">>

\* ----------------------------------------------- claims on the progress view
\* C1: when POST /api/abort fails (a response that is not ok, or a network
\* error), the abort issues no PATCH, changes no row and does not clear the
\* active campaign; a row becomes aborted only through the PATCH of an abort
\* whose notify succeeded.
C1_FailedNotifyStops ==
    /\ [](ab.notify # "ok" => /\ ab.pc # "patch"
                              /\ ~includes(ab.calls, "patch"))
    /\ [][ last' = "AbortNotifyFailed" =>
             /\ ab.pc = "notify"
             /\ ab'.pc = "done"
             /\ ab'.calls = <<"notify">>
             /\ store' = store
             /\ activeCampaign' = activeCampaign
         ]_vars
    /\ [][ \A id \in Ids :
             (store'[id].status = "aborted" /\ store[id].status # "aborted") =>
                 /\ last' = "AbortSucceeded"
                 /\ ab.notify = "ok"
                 /\ ab.id = id
         ]_vars

\* C1 witness: the notify got a response that is not ok; the campaign is
\* still in progress and still the active one.
C1_Witness ==
    /\ last = "AbortNotifyFailed"
    /\ ab.notify = "notok"
    /\ ab.calls = <<"notify">>
    /\ store[ab.id].status = "in-progress"
    /\ activeCampaign = ab.id

AbortEnds == {"AbortSucceeded", "AbortNotifyFailed", "AbortPatchFailed"}

\* C2: the abort issues notify, then (only after notify succeeded) the PATCH;
\* it shows 'Campaign aborted' and clears the active campaign exactly when
\* both succeeded; in every other outcome it shows exactly one 'Failed to
\* abort campaign'; at its end isAborting is false.
C2_AbortOutcome ==
    /\ [](/\ isAborting <=> ab.pc \in {"notify", "patch"}
          /\ ab.pc = "notify" => ab.calls = <<"notify">>
          /\ ab.pc = "patch" => ab.calls = <<"notify", "patch">> /\ ab.notify = "ok"
          /\ ab.pc = "done" =>
                 /\ last \in AbortEnds
                 /\ ab.calls = IF ab.notify = "ok" THEN <<"notify", "patch">>
                               ELSE <<"notify">>
                 /\ last = "AbortSucceeded" <=> (ab.notify = "ok" /\ ab.patch = "ok")
          /\ last = "AbortSucceeded" =>
                 /\ ab.pc = "done"
                 /\ toasts = <<"Campaign aborted">>
                 /\ activeCampaign = 0
                 /\ ~isAborting
          /\ last \in AbortEnds \ {"AbortSucceeded"} =>
                 /\ ab.pc = "done"
                 /\ toasts = <<"Failed to abort campaign">>
                 /\ ~isAborting
          /\ includes(toasts, "Campaign aborted") => last = "AbortSucceeded")
    /\ [][ (last' \in AbortEnds \cup {"AbortClick", "AbortNotified"}
            /\ activeCampaign' # activeCampaign) => last' = "AbortSucceeded"
         ]_vars

\* C2 witness: notify succeeded, the PATCH did not: one failure notification,
\* the campaign still active and in progress.
C2_Witness ==
    /\ last = "AbortPatchFailed"
    /\ ab.calls = <<"notify", "patch">>
    /\ ab.notify = "ok"
    /\ ab.patch = "notok"
    /\ toasts = <<"Failed to abort campaign">>
    /\ activeCampaign = ab.id
    /\ store[ab.id].status = "in-progress"
    /\ ~isAborting

PollEnds == {"PollList", "PollEmpty", "PollNotList", "PollThrew"}

\* C10: when the in-progress query answers with no campaign while one is
\* tracked (previousStatus is in-progress), exactly one summary notification
\* is shown, a failure for the last-seen engine status error and a success
\* for completed; no other answer of the query shows a notification.  (The
\* code shows none for the other statuses and decides from the values of the
\* closure, so that overlapping polls notify twice: the statement is
\* violated.)
C10_ExactlyOneSummary ==
    [][ last' \in PollEnds =>
          IF last' = "PollEmpty" /\ previousStatus = "in-progress"
          THEN /\ Len(toasts') = 1
               /\ apiProgress.status = "error" =>
                      toasts'[1] \in {"Campaign failed", "Account Suspended"}
               /\ apiProgress.status = "completed" =>
                      toasts'[1] = "Campaign completed successfully!"
          ELSE toasts' = <<>>
      ]_vars

\* C17: a listing holds every campaign of the table once, the campaigns with
\* a position before those without one, by ascending position, and campaigns
\* with the same position (or all without one) by descending creation time.
C17_ListingOrder ==
    [][last' = "FetchOk"
       => LET l == campaigns'
          IN  /\ {l[i].id : i \in DOMAIN l} = {id \in Ids : store[id].present}
              /\ \A i, j \in DOMAIN l : l[i].id = l[j].id => i = j
              /\ \A i, j \in DOMAIN l :
                    i < j =>
                      LET a == store[l[i].id]
                          b == store[l[j].id]
                      IN  /\ a.queue_position = NullPos
                             => b.queue_position = NullPos
                          /\ a.queue_position # NullPos /\ b.queue_position # NullPos
                             => a.queue_position <= b.queue_position
                          /\ a.queue_position = b.queue_position
                             => a.created_at > b.created_at]_vars

\* a listing with a campaign without a position after one with a position,
\* and two campaigns that share a position
C17_Witness ==
    /\ last = "FetchOk"
    /\ \E i, j \in DOMAIN campaigns :
           /\ i < j
           /\ campaigns = getCampaignsOrderedByQueue(store)
           /\ \/ /\ store[campaigns[i].id].queue_position # NullPos
                 /\ store[campaigns[j].id].queue_position = NullPos
              \/ /\ store[campaigns[i].id].queue_position # NullPos
                 /\ store[campaigns[i].id].queue_position
                        = store[campaigns[j].id].queue_position

\* C18: a delete that succeeds removes its campaign and no other from the
\* table and from the listing, the other rows keep their positions and the
\* listing keeps their order; a campaign that is gone stays out of the table
\* (and so, by the listing's definition, out of every later listing).
C18_DeleteRemovesOne ==
    /\ [][last' = "ActionOk" /\ act.action = "delete"
          => /\ ~store'[act.id].present
             /\ \A id \in Ids \ {act.id} : store'[id] = store[id]
             /\ SeqIds(getCampaignsOrderedByQueue(store'))
                   = Without(SeqIds(getCampaignsOrderedByQueue(store)), act.id)]_vars
    /\ [][\A id \in Ids : ~store[id].present => ~store'[id].present]_vars

\* a campaign was deleted from a table whose other campaigns hold positions
C18_Witness ==
    /\ last = "ActionOk"
    /\ toasts = <<"Campaign deleted">>
    /\ Cardinality(Present(store)) = NumCampaigns - 1
    /\ \A id \in Present(store) : store[id].queue_position # NullPos

\* C19: Start Now is offered only on a campaign whose status is not-started
\* and leaves it in-progress; Pause is offered only on a campaign whose status
\* is in-progress and leaves it not-started; neither changes another row or a
\* position.  (After a failed start or pause the table shows the status the
\* action would have set and offers the opposite action on a campaign that
\* is not in the state for it: the statement is violated.)
C19_StatusTransitions ==
    [][/\ last' = "TableAction" /\ act'.action = "start"
          => store[act'.id].status = "not-started"
       /\ last' = "TableAction" /\ act'.action = "pause"
          => store[act'.id].status = "in-progress"
       /\ last' = "ActionOk" /\ act.action \in {"start", "pause"}
          => /\ store'[act.id].status =
                    IF act.action = "start" THEN "in-progress" ELSE "not-started"
             /\ store'[act.id].queue_position = store[act.id].queue_position
             /\ \A id \in Ids \ {act.id} : store'[id] = store[id]]_vars

\* C20: a campaign whose status is in-progress is never removed from the
\* table by the delete action.  (Remove is offered on every row and the page
\* deletes without a look at the status: the statement is violated.)
C20_InProgressNotDeleted ==
    [][\A id \in Ids :
          store[id].present /\ store[id].status = "in-progress"
              => store'[id].present]_vars

\* C15: after a successful submission and after Clear, once the effects of
\* the form have run, the draft cache holds no draft.  (The save effect of the
\* render that follows setConfig(resetConfig) stores the reset form after
\* removeItem has run: the statement is violated.)
C15_NoDraftAfterReset ==
    last \in {"InsertOk", "ClearForm"} => ~draft.present

\* C16: after every change of the form the draft cache holds the form as it
\* is (its JSON text, which parses back to it), and a mount leaves the form
\* equal to the draft that was in the cache before the mount, which is the
\* form before the mount; the draft is the same after the mount.
C16_DraftRoundTrip ==
    /\ [](/\ draft.present
          /\ draft.value = stringify(config)
          /\ parseDraft(draft.value) = config)
    /\ [][last' = "FormMount"
          => /\ config' = parseDraft(draft.value)
             /\ config' = config
             /\ draft' = draft]_vars

\* the form was mounted over a draft that held a comment and a date
C16_Witness ==
    /\ last = "FormMount"
    /\ config.customComment # <<>>
    /\ config.targetingMode = "date"
    /\ config.targetDate = Date(1)
    /\ draft.value.targetDate = String(1)

\* --------------------------------------------- claims on the checkpoint feed
\* C11: when the engine goes from running to error with a message that holds
\* 'suspended' while a campaign is in progress, and the campaign then leaves
\* the in-progress query, the checkpoint poller and the in-progress poller
\* show one 'Account Suspended' notification between them, not more.  (Each
\* of the two pollers shows its own: the statement is violated.)
C11_OneSuspendedNotification == suspendedToasts <= 1

\* C12: no two entries of the displayed window of checkpoints have the same
\* type, status and timestamp, whatever the polls (repeated, overlapping,
\* served at different lengths of the feed, failed) and the idle resets.
C12_NoDuplicateCheckpoints ==
    \A i, j \in DOMAIN checkpoints :
        checkpointId(checkpoints[i]) = checkpointId(checkpoints[j]) => i = j

\* two checkpoints of the feed share their instant, a later one has been
\* accepted (so an answer held both), and the window shows that instant
C12_Witness ==
    /\ last = "fetchCheckpoints"
    /\ \E i \in 1..(Len(feed) - 2) :
           /\ checkpointId(feed[i]) = checkpointId(feed[i + 1])
           /\ \E j \in (i + 2)..Len(feed) :
                  checkpointId(feed[j]) \in seenCheckpointIds
           /\ \E k \in DOMAIN checkpoints : checkpoints[k] = feed[i]

\* C13: the window never holds more than 10 entries, and a merge leaves in
\* it the 10 most recently accepted checkpoints: the ones accepted by this
\* answer at the end, before them the latest of the window so far.
C13_WindowOfTen ==
    /\ [](Len(checkpoints) <= 10)
    /\ [][last' = "fetchCheckpoints" /\ seenCheckpointIds' # seenCheckpointIds
          => LET accepted == seenCheckpointIds' \ seenCheckpointIds
                 k == Cardinality(accepted)
                 m == IF Len(checkpoints) < 10 - k THEN Len(checkpoints)
                      ELSE 10 - k
             IN  /\ k <= 10
                 /\ Len(checkpoints') = m + k
                 /\ {checkpointId(checkpoints'[i]) : i \in (m + 1)..(m + k)}
                        = accepted
                 /\ SubSeq(checkpoints', 1, m) = SubSeq(checkpoints, Len(checkpoints) - m + 1,
                                 Len(checkpoints))]_vars

\* a merge has pushed accepted checkpoints out of a full window
C13_Witness ==
    /\ last = "fetchCheckpoints"
    /\ Len(checkpoints) = 10
    /\ Cardinality(seenCheckpointIds) > 10
    /\ checkpointId(checkpoints[10]) = checkpointId(feed[Len(feed)])
       \/ checkpointId(checkpoints[10]) = checkpointId(feed[Len(feed) - 1])

\* C14: no failure checkpoint (timestamp + message) is notified more than once
\* by the checkpoint poller, whatever the polls, the changes of the engine
\* status and the remounts of the view.  (An idle answer clears
\* shownErrorToasts and a remount starts with an empty one: the statement is
\* violated.)
C14_OneToastPerError ==
    \A e \in BagToSet(errorToasts) : CopiesIn(e, errorToasts) <= 1

C30_ClearedOnlyOnEmptyList ==
    [][last' \in {"PollList", "PollNotList", "PollThrew"}
       => /\ activeCampaign # 0 => activeCampaign' # 0
          /\ previousStatus = "in-progress" => previousStatus' = "in-progress"]_vars

\* C22: a poll that fails (a request that throws, or an answer that is the
\* body of a non-success response) shows no notification and leaves the
\* engine status, the window of checkpoints, the tracked campaign and
\* previousStatus as they are.  (The in-progress poller reads a non-success
\* body as an empty list, see C30: the statement is violated.)
C22_FailedPollsSwallowed ==
    [][\/ last' \in {"PollThrew", "PollNotList", "CheckpointsFailed"}
       \/ last' = "fetchProgress" /\ faults' # faults
       => /\ toasts' = <<>>
          /\ apiProgress' = apiProgress
          /\ checkpoints' = checkpoints
          /\ activeCampaign' = activeCampaign
          /\ previousStatus' = previousStatus]_vars

\* C29: once an abort has succeeded (its campaign is stored as aborted), an
\* in-progress poll that finds no campaign shows neither 'Campaign completed
\* successfully!' nor 'Campaign failed'.  (The abort leaves previousStatus
\* at in-progress, so the next empty answer is read as the end of the run
\* and summarised from the engine status: the statement is violated.)
C29_NoSummaryAfterAbort ==
    [][/\ last' = "PollEmpty"
       /\ \E id \in Ids : store[id].present /\ store[id].status = "aborted"
       => \A i \in DOMAIN toasts' :
             toasts'[i] \notin {"Campaign completed successfully!",
                                "Campaign failed"}]_vars

\* ------------------------------------------------ claims on the shown queue
\* C26: after a start, pause or delete whose store call has failed, the list
\* the table shows still equals the table of the store: the same campaigns,
\* each with its stored status.  (The table applies the action to its own
\* items whatever the store answers: the statement is violated.)
C26_FailedActionKeepsList ==
    last = "ActionFailed"
        => /\ ItemIds(items) = Present(store)
           /\ \A i \in DOMAIN items : items[i].status = store[items[i].id].status

\* ------------------------------------------------ claims on the job provider
\* C25: when fetchActiveJob completes and scraping_jobs was not written while
\* it awaited, the active job is the newest job with status 'active' if there
\* is one, otherwise the newest job of any status, otherwise null; when a
\* query of it fails the active job is null and an error is recorded; every
\* completion leaves isLoading false; a failing setActiveJobById records an
\* error and leaves the active job as it was.
C25_ActiveJobAfterFetch ==
    [][/\ last' \in {"JobLoaded", "JobFetchFailed", "JobSet", "JobSetFailed"}
          => jobLoading' = FALSE
       /\ last' = "JobLoaded" =>
            \E c \in BagToSet(jcalls) :
               /\ jcalls' = jcalls (-) SetToBag({c})
               /\ ~c.changed =>
                    LET active == {j \in 1..NumJobs : jobs'[j] = "active"}
                        any == {j \in 1..NumJobs : jobs'[j] # "absent"}
                    IN  /\ active # {} =>
                           /\ activeJob' \in active
                           /\ \A j \in active : j <= activeJob'
                        /\ active = {} /\ any # {} =>
                           /\ activeJob' \in any
                           /\ \A j \in any : j <= activeJob'
                        /\ any = {} => activeJob' = 0
       /\ last' = "JobFetchFailed" => activeJob' = 0 /\ jobError' # "null"
       /\ last' = "JobSetFailed" =>
            activeJob' = activeJob /\ jobError' # "null"]_vars

\* an older active job is loaded although a newer completed job exists
C25_Witness ==
    /\ last = "JobLoaded"
    /\ jcalls = EmptyBag
    /\ jobs[1] = "active"
    /\ jobs[2] = "completed"
    /\ activeJob = 1
    /\ ~jobLoading

\* ------------------------------------------------ claims on the status loop
\* C23: the displayed phase is determined by the answer stored last: status
\* 'completed' gives 'completed'; 'idle' and 'error' give 'idle'; 'running'
\* gives the first match on the lower-cased sentence of navigating, comment
\* (commenting), authenticating or login, connecting, waiting or cooldown,
\* and 'commenting' without a match; so a running answer never gives 'idle'
\* or 'completed'.
C23_PhaseOfAnswer ==
    apiProgress # NoProgress =>
        LET sentence == toLowerCase(apiProgress.latest_sentence)
            has(w) == includesText(sentence, w)
            nav == has(Keywords.navigating)
            com == has(Keywords.comment)
            auth == has(Keywords.authenticating) \/ has(Keywords.login)
            con == has(Keywords.connecting)
            wait == has(Keywords.waiting) \/ has(Keywords.cooldown)
        IN  /\ apiProgress.status = "completed" => displayedPhase = "completed"
            /\ apiProgress.status \in {"idle", "error"} => displayedPhase = "idle"
            /\ apiProgress.status = "running" =>
                 /\ displayedPhase \notin {"idle", "completed"}
                 /\ nav => displayedPhase = "navigating"
                 /\ ~nav /\ com => displayedPhase = "commenting"
                 /\ ~nav /\ ~com /\ auth => displayedPhase = "authenticating"
                 /\ ~nav /\ ~com /\ ~auth /\ con => displayedPhase = "connecting"
                 /\ ~nav /\ ~com /\ ~auth /\ ~con /\ wait =>
                        displayedPhase = "waiting"
                 /\ ~nav /\ ~com /\ ~auth /\ ~con /\ ~wait =>
                        displayedPhase = "commenting"

\* a running answer whose sentence holds two keywords is shown by the first
C23_Witness ==
    /\ last = "fetchProgress"
    /\ apiProgress.status = "running"
    /\ includesText(toLowerCase(apiProgress.latest_sentence), Keywords.navigating)
    /\ includesText(toLowerCase(apiProgress.latest_sentence), Keywords.comment)
    /\ displayedPhase = "navigating"

\* C24: the requests of the status loop overlap, and every response that
\* arrives is stored and shown, also the response to a request older than
\* one whose response is stored already: the engine status on display is
\* that of the response that arrived last.
C24_LastResponseWins ==
    [][last' = "fetchProgress" /\ faults' = faults =>
          \E i \in DOMAIN pcalls :
             /\ pcalls[i].data # NoProgress
             /\ Len(pcalls') = Len(pcalls) - 1
             /\ apiProgress' = pcalls[i].data
             /\ displayedPhase' = phase(pcalls[i].data)
             /\ stale' = pcalls[i].overtaken]_vars

\* two requests were in flight, the later was answered first, and the view
\* now shows the answer to the earlier one, which is not what the engine says
C24_Witness ==
    /\ last = "fetchProgress"
    /\ stale
    /\ apiProgress.status # engine.status
    /\ pcalls = <<>>

\* ----------------------------------------------- claims on the shown numbers
\* C27: after a reorder that was saved, the number shown next to each row of
\* the table is the queue position stored for its campaign, whatever the
\* platform filter and the statuses of the campaigns.  (The number shown is
\* the index in the filtered and status-sorted rows, the position stored is
\* the index in all items: the statement is violated.)
C27_ShownPositionIsStored ==
    last = "ReorderSaved" =>
        LET shown == filteredItems(items, platformFilter)
        IN  \A i \in 1..Len(shown) : store[shown[i].id].queue_position = i

\* -------------------------------------------- claims on interleaved reorders
\* C28: when the updates of two reorders issued in quick succession have
\* all succeeded, in whatever order they were applied, the stored positions
\* are 1..N without duplicates and are those of the later reorder.  (Each
\* update is a request of its own: an update of the earlier reorder can be
\* applied after the update of the later one for the same campaign; the
\* statement is violated.)
C28_LaterReorderWins ==
    rq.pc = "saved" /\ rqOld.pc = "saved" =>
        /\ \A i \in DOMAIN rq.order :
              store[rq.order[i].id].queue_position = rq.order[i].queue_position
        /\ {store[id].queue_position : id \in Present(store)}
               = 1..Cardinality(Present(store))

====
